---- MODULE Spec2Model ----
(***************************************************************************)
(* Model of the tlauncher-launcher core: configuration merge, compose      *)
(* command construction, pre-flight validation and the ContainerManager    *)
(* lifecycle (start / stop / restart / status), together with the CLI and  *)
(* GUI entry points that drive it.                                         *)
(***************************************************************************)
EXTENDS Naturals, Integers, Sequences, FiniteSets, TLC

(***************************************************************************)
(* Bounds of the model.                                                    *)
(***************************************************************************)
\* longest output the supervised process writes before it exits
MaxLines == 2
\* lines the stdout pipe holds before the writer blocks
PipeCap == 1
\* operations invoked one after another on one ContainerManager
MaxCalls == 2
\* tokens in the captured stdout of the 'ps' query
MaxPsLen == 2

(***************************************************************************)
(* Program constants.                                                      *)
(***************************************************************************)
\* stop(stop_timeout=5)
DefaultStopTimeout == 5
\* timeout=stop_timeout + 15 of the 'stop' command
StopMargin == 15
\* timeout=15 of the 'down' command
DownTimeout == 15
\* timeout=10 of the 'ps' query
StatusTimeout == 10
\* subprocess.run / Popen called without a timeout argument
NoTimeout == 0 - 1

\* ContainerManager._STARTED_PATTERNS
STARTED_PATTERNS == {"[Loading] SUCCESS", "Started!"}

(***************************************************************************)
(* Python helpers.                                                         *)
(***************************************************************************)
\* dict.get(key, default) on a dict modelled as a function
Get(d, k, default) == IF k \in DOMAIN d THEN d[k] ELSE default

\* the given dict with d[k] = v set
Put(d, k, v) == [x \in (DOMAIN d) \cup {k} |-> IF x = k THEN v ELSE d[x]]

\* str.strip() on the strings the model uses
StrStrip(s) ==
  CASE s = " " -> ""
    [] s = " docker " -> "docker"
    [] OTHER -> s

\* truthiness of a str
Truthy(s) == s # ""

\* str.lower() on one token of captured output
LowerTok(t) ==
  CASE t = "TLauncher" -> "tlauncher"
    [] t = "NVIDIA" -> "nvidia"
    [] t = "GeForce" -> "geforce"
    [] t = "AMD" -> "amd"
    [] t = "Radeon" -> "radeon"
    [] t = "Intel" -> "intel"
    [] t = "VGA" -> "vga"
    [] t = "X11" -> "x11"
    [] t = "Wayland" -> "wayland"
    [] OTHER -> t

\* str.lower() on captured output (a sequence of tokens)
Lower(text) == [i \in 1..Len(text) |-> LowerTok(text[i])]

RECURSIVE LStrip(_)
LStrip(text) ==
  IF text # <<>> /\ Head(text) = " " THEN LStrip(Tail(text)) ELSE text

RECURSIVE RStrip(_)
RStrip(text) ==
  IF text # <<>> /\ text[Len(text)] = " "
    THEN RStrip(SubSeq(text, 1, Len(text) - 1))
    ELSE text

\* str.strip() on captured output: leading and trailing whitespace removed
Strip(text) == RStrip(LStrip(text))

\* 'needle in text' on captured output
Contains(text, needle) == \E i \in 1..Len(text) : text[i] = needle

\* isinstance(e, cls) for the exceptions a subprocess call raises
IsInstance(e, cls) == cls = "Exception" \/ cls = e

(***************************************************************************)
(* core/config.py                                                          *)
(***************************************************************************)
EnumKeys == <<"runtime", "gpu", "display", "audio">>

\* the merge loop without the test for a whitespace-only value
RECURSIVE MergeKeys_NoStrip(_, _, _)
MergeKeys_NoStrip(merged, saved, i) ==
  IF i > Len(EnumKeys) THEN merged
  ELSE LET key == EnumKeys[i]
           saved_value == Get(saved, key, "")
       IN MergeKeys_NoStrip(IF Truthy(saved_value)
                              THEN Put(merged, key, saved_value)
                              ELSE merged,
                            saved, i + 1)

\* the merge loop storing the stripped value
RECURSIVE MergeKeys_Stripped(_, _, _)
MergeKeys_Stripped(merged, saved, i) ==
  IF i > Len(EnumKeys) THEN merged
  ELSE LET key == EnumKeys[i]
           saved_value == Get(saved, key, "")
       IN MergeKeys_Stripped(IF Truthy(saved_value) /\ Truthy(StrStrip(saved_value))
                               THEN Put(merged, key, StrStrip(saved_value))
                               ELSE merged,
                             saved, i + 1)

RECURSIVE MergeKeys(_, _, _)
MergeKeys(merged, saved, i) ==
  IF i > Len(EnumKeys) THEN merged
  ELSE LET key == EnumKeys[i]
           saved_value == Get(saved, key, "")
       IN MergeKeys(IF Truthy(saved_value) /\ Truthy(StrStrip(saved_value))
                      THEN Put(merged, key, saved_value)
                      ELSE merged,
                    saved, i + 1)

merge_config(detected, saved) ==
  Put(MergeKeys(detected, saved, 1), "auto_xhost", Get(saved, "auto_xhost", TRUE))

(***************************************************************************)
(* core/composer.py                                                        *)
(***************************************************************************)
get_compose_files(config) ==
  << "compose.base.yaml",
     "compose." \o config["runtime"] \o ".yaml",
     "compose." \o config["gpu"] \o ".yaml",
     "compose." \o config["display"] \o ".yaml",
     "compose.audio-" \o config["audio"] \o ".yaml" >>

\* Path(__file__).parent.parent: the directory the launcher is installed in
get_compose_directory == "<launcher>"

\* for f in files: cmd.extend(['-f', str(compose_dir / f)])
RECURSIVE FileFlags(_, _)
FileFlags(files, i) ==
  IF i > Len(files) THEN <<>>
  ELSE <<"-f", get_compose_directory \o "/" \o files[i]>> \o FileFlags(files, i + 1)

\* build_compose_command with the extra arguments ahead of the action
build_compose_command_ExtrasFirst(config, action, extra_args) ==
  <<config["runtime"], "compose">> \o FileFlags(get_compose_files(config), 1)
    \o extra_args \o <<action>>

build_compose_command(config, action, extra_args) ==
  LET files == << "compose.base.yaml",
                  "compose." \o config["runtime"] \o ".yaml",
                  "compose." \o config["gpu"] \o ".yaml",
                  "compose." \o config["display"] \o ".yaml",
                  "compose.audio-" \o config["audio"] \o ".yaml" >>
  IN <<config["runtime"], "compose">> \o FileFlags(files, 1)
       \o <<action>> \o extra_args

\* the loop of validate_compose_files_exist leaving at the first missing file
MissingFrom_FirstOnly(files, present, i) ==
  IF \E k \in i..Len(files) : files[k] \notin present
    THEN <<files[CHOOSE k \in i..Len(files) :
                   /\ files[k] \notin present
                   /\ \A j \in i..(k - 1) : files[j] \in present]>>
    ELSE <<>>

RECURSIVE MissingFrom(_, _, _)
MissingFrom(files, present, i) ==
  IF i > Len(files) THEN <<>>
  ELSE (IF files[i] \in present THEN <<>> ELSE <<files[i]>>)
         \o MissingFrom(files, present, i + 1)

\* present: the compose files that exist in the compose directory
validate_compose_files_exist(config, present) ==
  LET missing == MissingFrom(get_compose_files(config), present, 1)
  IN [all_exist |-> Len(missing) = 0, missing |-> missing]

\* the action token of a composed command: the element after the 5th -f pair
ActionOf(cmd) == cmd[13]


(***************************************************************************)
(* core/validator.py                                                       *)
(*                                                                         *)
(* A host is what the checks probe: the executables on the search path     *)
(* (which), the outcome of '<runtime> --version' (version), the device     *)
(* nodes and sockets that exist (paths), the environment variables that    *)
(* are set (env), the compose files present (files), the outcome of the    *)
(* 'xhost' query (xhost) and of the 'xhost +SI:localuser:..' grant (grant).*)
(***************************************************************************)
ValidationIssue(message, level) == [message |-> message, level |-> level]

\* is_blocking that takes every issue for blocking
is_blocking_AnyLevel(issue) == issue.level \in {"error", "warning"}

is_blocking(issue) == issue.level = "error"

_check_runtime(config, host) ==
  LET runtime == config["runtime"] IN
  IF runtime \notin host.which
    THEN <<ValidationIssue(runtime \o " is not installed or not in PATH", "error")>>
  ELSE IF host.version = "nonzero"
    THEN <<ValidationIssue(runtime \o " is installed but not working properly", "error")>>
  ELSE IF host.version = "TimeoutExpired"
    THEN <<ValidationIssue(runtime \o " command timed out", "warning")>>
  ELSE IF host.version = "OSError"
    THEN <<ValidationIssue("Error checking " \o runtime, "warning")>>
  ELSE <<>>

_check_gpu(config, host) ==
  LET gpu == config["gpu"] IN
  IF gpu = "nvidia"
    THEN (IF "/dev/nvidia0" \notin host.paths
            THEN <<ValidationIssue("NVIDIA GPU selected but /dev/nvidia0 not found", "error")>>
            ELSE <<>>)
         \o
         (IF "/dev/nvidiactl" \notin host.paths
            THEN <<ValidationIssue("/dev/nvidiactl device not found", "warning")>>
            ELSE <<>>)
  ELSE IF gpu = "amd"
    THEN (IF "/dev/dri" \notin host.paths
            THEN <<ValidationIssue("/dev/dri not found - no GPU acceleration available", "warning")>>
            ELSE <<>>)
  ELSE <<>>

\* _check_display that takes a missing X11 socket for an error
_check_display_SocketBlocking(config, host) ==
  IF config["display"] = "x11"
    THEN (IF "DISPLAY" \notin host.env
            THEN <<ValidationIssue("X11 selected but DISPLAY environment variable not set", "error")>>
            ELSE <<>>)
         \o
         (IF "/tmp/.X11-unix" \notin host.paths
            THEN <<ValidationIssue("X11 socket directory /tmp/.X11-unix not found", "error")>>
            ELSE <<>>)
  ELSE IF config["display"] = "wayland" /\ "WAYLAND_DISPLAY" \notin host.env
    THEN <<ValidationIssue("Wayland selected but WAYLAND_DISPLAY not set", "warning")>>
  ELSE <<>>

_check_display(config, host) ==
  LET display == config["display"] IN
  IF display = "x11"
    THEN (IF "DISPLAY" \notin host.env
            THEN <<ValidationIssue("X11 selected but DISPLAY environment variable not set", "error")>>
            ELSE <<>>)
         \o
         (IF "/tmp/.X11-unix" \notin host.paths
            THEN <<ValidationIssue("X11 socket directory /tmp/.X11-unix not found", "warning")>>
            ELSE <<>>)
  ELSE IF display = "wayland"
    THEN (IF "WAYLAND_DISPLAY" \notin host.env
            THEN <<ValidationIssue("Wayland selected but WAYLAND_DISPLAY not set", "warning")>>
            ELSE <<>>)
  ELSE <<>>

\* _check_audio that takes a missing PulseAudio socket for an error
_check_audio_Blocking(config, host) ==
  IF config["audio"] = "pulseaudio" /\ "/run/user/uid/pulse/native" \notin host.paths
    THEN <<ValidationIssue("PulseAudio socket not found", "error")>>
    ELSE <<>>

_check_audio(config, host) ==
  IF config["audio"] = "pulseaudio"
    THEN (IF "/run/user/uid/pulse/native" \notin host.paths
            THEN <<ValidationIssue("PulseAudio socket not found", "warning")>>
            ELSE <<>>)
         \o
         (IF "/dev/snd" \notin host.paths
            THEN <<ValidationIssue("/dev/snd not found - ALSA devices unavailable", "warning")>>
            ELSE <<>>)
  ELSE <<>>

_check_compose_files(config, host) ==
  LET r == validate_compose_files_exist(config, host.files) IN
  IF ~r.all_exist
    THEN [i \in 1..Len(r.missing) |->
            ValidationIssue("Compose file not found: " \o get_compose_directory \o "/"
                              \o r.missing[i], "error")]
    ELSE <<>>

_check_xhost(config, host) ==
  IF config["display"] = "x11" /\ Get(config, "auto_xhost", TRUE)
    THEN IF "xhost" \notin host.which
           THEN <<ValidationIssue("xhost command not found", "warning")>>
         ELSE IF host.xhost = "unlisted"
           THEN <<ValidationIssue("X11 access may need to be granted", "warning")>>
         ELSE <<>>
    ELSE <<>>

validate_system(config, host) ==
  LET issues == _check_runtime(config, host)
                  \o _check_gpu(config, host)
                  \o _check_display(config, host)
                  \o _check_audio(config, host)
                  \o _check_compose_files(config, host)
                  \o _check_xhost(config, host)
      has_errors == \E i \in 1..Len(issues) : is_blocking(issues[i])
  IN [is_valid |-> ~has_errors, issues |-> issues]

run_xhost_if_needed(config, host) ==
  IF config["display"] # "x11" \/ ~Get(config, "auto_xhost", TRUE) THEN TRUE
  ELSE IF "xhost" \notin host.which THEN FALSE
  ELSE IF "USER" \notin host.env THEN FALSE
  ELSE host.grant = "ok"


(***************************************************************************)
(* External processes.                                                     *)
(***************************************************************************)
ExitCodes == {0, 1}

\* exceptions subprocess raises when the executable cannot be launched
LaunchErrors == {"FileNotFoundError", "OSError"}

\* what the merged stdout/stderr of 'compose up' can carry, one entry per
\* line, each line a sequence of tokens (the last one has trailing blanks)
OutputLines ==
  { <<"Downloading">>, <<"[Loading] SUCCESS", " ">>, <<"Started!">> }

RECURSIVE SeqsUpTo(_, _)
SeqsUpTo(S, n) ==
  IF n = 0 THEN {<<>>}
  ELSE LET shorter == SeqsUpTo(S, n - 1)
       IN shorter \cup {Append(q, x) : q \in {r \in shorter : Len(r) = n - 1}, x \in S}

\* the outputs a supervised process may write before it exits
LineSeqs == SeqsUpTo(OutputLines, MaxLines)

PsTokens == {"tlauncher", "TLauncher", "other", " "}

\* the captured stdout of the 'ps' query
PsOutputs == SeqsUpTo(PsTokens, MaxPsLen)

Exit(rc, stdout) == [kind |-> "exit", rc |-> rc, exc |-> "", stdout |-> stdout]
Raise(exc) == [kind |-> "raise", rc |-> 0 - 1, exc |-> exc, stdout |-> <<>>]
Hang == [kind |-> "hang", rc |-> 0 - 1, exc |-> "", stdout |-> <<>>]
\* subprocess.Popen returned a running process
Spawn == [kind |-> "spawned", rc |-> 0 - 1, exc |-> "", stdout |-> <<>>]

\* the ways subprocess.run(cmd, timeout=timeout) can end: the command exits,
\* it cannot be launched, its timeout expires, or (without a timeout) it
\* never returns
RunOutcomes(timeout, stdouts) ==
  {Exit(rc, o) : rc \in ExitCodes, o \in stdouts}
    \cup {Raise(e) : e \in LaunchErrors}
    \cup (IF timeout = NoTimeout THEN {Hang} ELSE {Raise("TimeoutExpired")})

\* one launched (or attempted) command
Issued(cmd, timeout, outcome) ==
  [cmd |-> cmd, timeout |-> timeout, kind |-> outcome.kind,
   rc |-> outcome.rc, exc |-> outcome.exc, stdout |-> outcome.stdout]

\* the process object behind ContainerManager.process
NoProc == [state |-> "none", lines |-> <<>>, nw |-> 0, nr |-> 0, rc |-> 0 - 1]
Spawned(lines) == [state |-> "running", lines |-> lines, nw |-> 0, nr |-> 0, rc |-> 0 - 1]

(***************************************************************************)
(* core/container.py: the decisions of ContainerManager, one operator per  *)
(* decision.                                                               *)
(***************************************************************************)
PyBool(b) == IF b THEN "True" ELSE "False"

\* extra_args of start
StartExtraArgs(detached, force_recreate) ==
  (IF detached THEN <<"-d">> ELSE <<>>)
    \o (IF force_recreate THEN <<"--force-recreate">> ELSE <<>>)

\* stop with only its first except clause
stop_excepts_TimeoutOnly == <<"TimeoutExpired">>

\* the except clauses of start, stop and status, in order
start_excepts == <<"Exception">>
stop_excepts == <<"TimeoutExpired", "Exception">>
status_excepts == <<"TimeoutExpired", "Exception">>

\* whether one of the except clauses catches exc
Caught(exc, excepts) == \E i \in 1..Len(excepts) : IsInstance(exc, excepts[i])

\* any exit of the command taken for success
ReturncodeOk_AnyExit(rc) == rc >= 0

\* return result.returncode == 0 / return self.process.returncode == 0
ReturncodeOk(rc) == rc = 0

\* start returning without waiting for the process
WaitReturns_NoWait(p) == TRUE

\* process.wait() returns once the process has exited
WaitReturns(p) == p.state = "exited"

\* if output_callback: (the whole streaming loop is under it)
StreamsOutput(output_callback) == output_callback

\* the readiness test without the started_signaled latch
ShouldSignal_NoLatch(started_callback, started_signaled, stripped) ==
  /\ started_callback
  /\ \E p \in STARTED_PATTERNS : Contains(stripped, p)

\* if started_callback and not started_signaled: if any(p in stripped ...)
ShouldSignal(started_callback, started_signaled, stripped) ==
  /\ started_callback
  /\ ~started_signaled
  /\ \E p \in STARTED_PATTERNS : Contains(stripped, p)

\* if self._stop_requested: break
BreaksLoop(stop_requested) == stop_requested

\* the output_callback call of start's except clause
StartErrorReport(output_callback) ==
  IF output_callback THEN <<<<"Error starting container">>>> ELSE <<>>

\* the 'stop' command bounded by the grace period alone
StopCmdTimeout_NoMargin(stop_timeout) == stop_timeout

\* the 'down' command run without a timeout
DownCmdTimeout_Unbounded == NoTimeout

\* timeout of the 'stop' command
StopCmdTimeout(stop_timeout) == stop_timeout + StopMargin

\* timeout of the 'down' command
DownCmdTimeout == DownTimeout

\* stop_cmd and down_cmd
StopCmd(config, stop_timeout) ==
  build_compose_command(config, "stop", <<"-t", ToString(stop_timeout)>>)
DownCmd(config) == build_compose_command(config, "down", <<>>)

\* restart going on to start whatever stop() returned
RestartProceeds_Always(stopped) == TRUE

\* restart goes on to start only when stop() returned True
RestartProceeds(stopped) == stopped

\* any non-empty output of the query taken for a running workload
StatusRunning_AnyOutput(output) == output # <<>>

\* running = bool(output and 'tlauncher' in output.lower())
StatusRunning(output) == output # <<>> /\ Contains(Lower(output), "tlauncher")

NoStatus == [running |-> FALSE, key |-> "none", text |-> <<>>]

\* the dict status() returns for an outcome of the 'ps' query
StatusOf(outcome) ==
  IF outcome.kind = "exit"
    THEN IF outcome.rc = 0
           THEN [running |-> StatusRunning(Strip(outcome.stdout)),
                 key |-> "output", text |-> Strip(outcome.stdout)]
           ELSE [running |-> FALSE, key |-> "error", text |-> <<"stderr">>]
  ELSE IF outcome.exc = "TimeoutExpired"
    THEN [running |-> FALSE, key |-> "error", text |-> <<"Status check timed out">>]
    ELSE [running |-> FALSE, key |-> "error", text |-> <<outcome.exc>>]

\* is_running: status.get('running', False)
is_running(status) == status.running

(***************************************************************************)
(* Inputs of the entry points: detection results, persisted preferences,   *)
(* command-line arguments, GUI selections and hosts.                       *)
(***************************************************************************)
EmptyDict == [k \in {} |-> ""]

DetectedSet ==
  { [runtime |-> "podman", gpu |-> "nvidia", display |-> "x11", audio |-> "pulseaudio"],
    [runtime |-> "docker", gpu |-> "amd", display |-> "wayland", audio |-> "none"] }

SavedSet ==
  { EmptyDict,
    [runtime |-> "", gpu |-> "nvidia", display |-> " ", audio |-> "",
     auto_xhost |-> FALSE] }

\* parsed arguments of 'start'; "" is an option that was not given
CliArgsSet ==
  [ runtime : {""}, gpu : {"", "amd"}, display : {""}, audio : {""},
    yes : BOOLEAN, detached : BOOLEAN, force_recreate : BOOLEAN ]

\* the four dropdowns of the GUI
GuiVarsSet ==
  [ runtime : {"auto"}, gpu : {"auto", "nvidia"}, display : {"auto", "x11"},
    audio : {"auto"} ]

AllComposeFiles ==
  { "compose.base.yaml", "compose.podman.yaml", "compose.docker.yaml",
    "compose.nvidia.yaml", "compose.amd.yaml", "compose.x11.yaml",
    "compose.wayland.yaml", "compose.audio-pulseaudio.yaml",
    "compose.audio-none.yaml" }

AllPaths ==
  { "/dev/nvidia0", "/dev/nvidiactl", "/dev/dri", "/tmp/.X11-unix",
    "/run/user/uid/pulse/native", "/dev/snd" }

AllEnv == {"DISPLAY", "WAYLAND_DISPLAY", "USER"}

AllWhich == {"podman", "docker", "xhost"}

FullHost ==
  [ which |-> AllWhich, version |-> "ok", paths |-> AllPaths, env |-> AllEnv,
    files |-> AllComposeFiles, xhost |-> "listed", grant |-> "ok" ]

BareHost ==
  [ which |-> {}, version |-> "ok", paths |-> {}, env |-> {},
    files |-> {}, xhost |-> "listed", grant |-> "ok" ]

\* the fully equipped host, the bare host, and every host that differs from
\* the fully equipped one in a single fact
SpotHosts ==
  {FullHost, BareHost}
    \cup {[FullHost EXCEPT !.which = AllWhich \ {w}] : w \in AllWhich}
    \cup {[FullHost EXCEPT !.version = v] : v \in {"nonzero", "TimeoutExpired", "OSError"}}
    \cup {[FullHost EXCEPT !.paths = AllPaths \ {x}] : x \in AllPaths}
    \cup {[FullHost EXCEPT !.env = AllEnv \ {x}] : x \in AllEnv}
    \cup {[FullHost EXCEPT !.files = AllComposeFiles \ {x}] : x \in AllComposeFiles}
    \cup {[FullHost EXCEPT !.xhost = v] : v \in {"unlisted", "nonzero", "raise"}}
    \cup {[FullHost EXCEPT !.grant = v] : v \in {"nonzero", "raise"}}

\* overrides that fill in only what the saved file leaves blank
ApplyOverrides_IfUnset(saved, args) ==
  [ k \in (DOMAIN saved) \cup {"runtime", "gpu", "display", "audio"} |->
      IF k \in {"runtime", "gpu", "display", "audio"}
           /\ ~Truthy(StrStrip(Get(saved, k, "")))
        THEN args[k]
        ELSE saved[k] ]

\* cli.py run_start, step 3: command-line overrides written into saved
ApplyOverrides(saved, args) ==
  LET s1 == IF Truthy(args.runtime) THEN Put(saved, "runtime", args.runtime) ELSE saved
      s2 == IF Truthy(args.gpu) THEN Put(s1, "gpu", args.gpu) ELSE s1
      s3 == IF Truthy(args.display) THEN Put(s2, "display", args.display) ELSE s2
      s4 == IF Truthy(args.audio) THEN Put(s3, "audio", args.audio) ELSE s3
  IN s4

\* gui.py _gather_config
_gather_config(detected, vars) ==
  [ runtime |-> IF vars.runtime = "auto" THEN detected["runtime"] ELSE vars.runtime,
    gpu |-> IF vars.gpu = "auto" THEN detected["gpu"] ELSE vars.gpu,
    display |-> IF vars.display = "auto" THEN detected["display"] ELSE vars.display,
    audio |-> IF vars.audio = "auto" THEN detected["audio"] ELSE vars.audio,
    auto_xhost |-> TRUE ]

\* gui.py start_minecraft: the 'already running' pre-check on '<runtime> ps'
AlreadyRunning(outcome) ==
  outcome.kind = "exit" /\ outcome.rc = 0 /\ Contains(outcome.stdout, "tlauncher")

\* if config['display'] == 'x11' and config.get('auto_xhost', True):
WantsXhost(config) == config["display"] = "x11" /\ Get(config, "auto_xhost", TRUE)

(***************************************************************************)
(* State.                                                                  *)
(***************************************************************************)
VARIABLES
  caller,     \* the entry point that drives the manager ("none" before any)
  validated,  \* what validate_system was run on and what it returned
  xhost,      \* the access grant: "not_run", "granted" or "failed"
  mgr,        \* ContainerManager: config, process (a handle is held), _stop_requested
  proc,       \* the process behind mgr.process
  op,         \* the operation the calling thread is in, and its locals
  out,        \* what output_callback received during the operation, in order
  ready,      \* how often started_callback was invoked during the operation
  issued,     \* the commands the operation launched, in order
  aux,        \* a second thread calling stop() on the same manager
  calls,      \* operations invoked on the manager so far
  check,      \* a run of validate_system: its config, the host it probes, its result
  probe,      \* a run of detect_system: the host it probes, what it detected
  prefs,      \* the path of a configuration from detection and the saved file
              \* to the component that receives it
  gui         \* the GUI window: its buttons, its worker threads, and the
              \* callbacks waiting for the main loop

\* the state of the ContainerManager and its front-ends
managerVars == <<caller, validated, xhost, mgr, proc, op, out, ready, issued, aux, calls>>

\* the state of the runs of validate_system, detect_system, the
\* configuration path and the GUI window
pureVars == <<check, probe, prefs, gui>>

vars == <<managerVars, pureVars>>

\* no run of validate_system / detect_system / the configuration path
NoRun == [pc |-> "idle"]

NotValidated == [ran |-> FALSE, config |-> EmptyDict, valid |-> FALSE]

NoManager == [config |-> EmptyDict, process |-> FALSE, stop_requested |-> FALSE]

\* ContainerManager.__init__
NewManager(config) == [config |-> config, process |-> FALSE, stop_requested |-> FALSE]

Idle ==
  [ name |-> "none", pc |-> "idle", detached |-> FALSE, force |-> FALSE,
    hasOut |-> FALSE, hasReady |-> FALSE, grace |-> DefaultStopTimeout,
    signaled |-> FALSE, ret |-> "none", stopRet |-> "none", st |-> NoStatus ]

AuxIdle == [pc |-> "idle", grace |-> DefaultStopTimeout, ret |-> "none"]

\* the locals of a call of start / stop / restart / status
StartCall(detached, force, hasOut, hasReady) ==
  [Idle EXCEPT !.name = "start", !.pc = "launch", !.detached = detached,
               !.force = force, !.hasOut = hasOut, !.hasReady = hasReady]
StopCall(grace) == [Idle EXCEPT !.name = "stop", !.pc = "stop_cmd", !.grace = grace]
RestartCall(hasOut) == [Idle EXCEPT !.name = "restart", !.pc = "stop_cmd", !.hasOut = hasOut]
StatusCall(name) == [Idle EXCEPT !.name = name, !.pc = "ps"]

\* the state after construction of the front-end, before any entry point ran
InitManager ==
  /\ caller = "none"
  /\ validated = NotValidated
  /\ xhost = "not_run"
  /\ mgr = NoManager
  /\ proc = NoProc
  /\ op = Idle
  /\ out = <<>>
  /\ ready = 0
  /\ issued = <<>>
  /\ aux = AuxIdle
  /\ calls = 0

Init ==
  /\ InitManager
  /\ check = NoRun
  /\ probe = NoRun
  /\ prefs = NoRun
  /\ gui = NoRun

(***************************************************************************)
(* Entry points (cli.py, gui.py).  Each runs up to the point where it      *)
(* hands the configuration to a ContainerManager operation; the operation  *)
(* itself then proceeds in the steps below.                                *)
(***************************************************************************)
\* timeout=3 of the GUI's 'already running' pre-check
GuiPsTimeout == 3

\* a fresh ContainerManager(config) on which `call` is invoked
Enter(config, call) ==
  /\ mgr' = (IF call.name \in {"stop", "restart"}
               THEN [NewManager(config) EXCEPT !.stop_requested = TRUE]
               ELSE NewManager(config))
  /\ op' = call
  /\ out' = (IF call.name = "restart" /\ call.hasOut
               THEN <<<<"Stopping container...">>>> ELSE <<>>)
  /\ ready' = 0
  /\ issued' = <<>>
  /\ aux' = AuxIdle
  /\ calls' = 1
  /\ proc' = NoProc

\* the grant run for every configuration, whatever its display and flag
XhostResult_Unconditional(config, host) ==
  IF run_xhost_if_needed(config, host) THEN "granted" ELSE "failed"

XhostResult(config, host) ==
  IF WantsXhost(config)
    THEN (IF run_xhost_if_needed(config, host) THEN "granted" ELSE "failed")
    ELSE "not_run"

\* cli.py run_start
RunStart ==
  /\ UNCHANGED pureVars
  /\ caller = "none"
  /\ caller' = "cli_start"
  /\ \E detected \in DetectedSet, saved \in SavedSet, args \in CliArgsSet,
        host \in SpotHosts, confirm \in BOOLEAN :
       LET config == merge_config(detected, ApplyOverrides(saved, args))
           v == validate_system(config, host)
       IN IF ~args.yes /\ ~confirm
            THEN UNCHANGED <<validated, xhost, mgr, proc, op, out, ready, issued, aux, calls>>
          ELSE IF ~v.is_valid
            THEN /\ validated' = [ran |-> TRUE, config |-> config, valid |-> FALSE]
                 /\ UNCHANGED <<xhost, mgr, proc, op, out, ready, issued, aux, calls>>
          ELSE /\ validated' = [ran |-> TRUE, config |-> config, valid |-> TRUE]
               /\ xhost' = XhostResult(config, host)
               /\ Enter(config, StartCall(args.detached, args.force_recreate, TRUE, FALSE))

\* cli.py run_stop
RunStop ==
  /\ UNCHANGED pureVars
  /\ caller = "none"
  /\ caller' = "cli_stop"
  /\ \E detected \in DetectedSet, saved \in SavedSet :
       Enter(merge_config(detected, saved), StopCall(DefaultStopTimeout))
  /\ UNCHANGED <<validated, xhost>>

\* cli.py run_restart
RunRestart ==
  /\ UNCHANGED pureVars
  /\ caller = "none"
  /\ caller' = "cli_restart"
  /\ \E detected \in DetectedSet, saved \in SavedSet :
       Enter(merge_config(detected, saved), RestartCall(TRUE))
  /\ UNCHANGED <<validated, xhost>>

\* cli.py run_status
RunStatus ==
  /\ UNCHANGED pureVars
  /\ caller = "none"
  /\ caller' = "cli_status"
  /\ \E detected \in DetectedSet, saved \in SavedSet :
       Enter(merge_config(detected, saved), StatusCall("status"))
  /\ UNCHANGED <<validated, xhost>>

\* gui.py start_minecraft, with start_container_async's worker
GuiStart ==
  /\ UNCHANGED pureVars
  /\ caller = "none"
  /\ caller' = "gui_start"
  /\ \E detected \in DetectedSet, guivars \in GuiVarsSet, host \in SpotHosts,
        pre \in RunOutcomes(GuiPsTimeout, PsOutputs) :
       LET config == _gather_config(detected, guivars)
           v == validate_system(config, host)
       IN IF AlreadyRunning(pre)
            THEN UNCHANGED <<validated, xhost, mgr, proc, op, out, ready, issued, aux, calls>>
          ELSE IF ~v.is_valid
            THEN /\ validated' = [ran |-> TRUE, config |-> config, valid |-> FALSE]
                 /\ UNCHANGED <<xhost, mgr, proc, op, out, ready, issued, aux, calls>>
          ELSE /\ validated' = [ran |-> TRUE, config |-> config, valid |-> TRUE]
               /\ xhost' = XhostResult(config, host)
               /\ Enter(config, StartCall(FALSE, FALSE, TRUE, TRUE))

\* gui.py restart_minecraft, with its restart_worker
GuiRestart ==
  /\ UNCHANGED pureVars
  /\ caller = "none"
  /\ caller' = "gui_restart"
  /\ \E detected \in DetectedSet, guivars \in GuiVarsSet :
       Enter(_gather_config(detected, guivars), RestartCall(TRUE))
  /\ UNCHANGED <<validated, xhost>>

(***************************************************************************)
(* Direct use of ContainerManager: any operation, with any combination of  *)
(* callbacks, one call after another on the same instance.                 *)
(***************************************************************************)
ApiConfigs == {merge_config(d, EmptyDict) : d \in DetectedSet}

GracePeriods == {0, DefaultStopTimeout}

Returned == op.pc \in {"idle", "done"} /\ aux.pc \in {"idle", "done"}

ApiNew ==
  /\ UNCHANGED pureVars
  /\ caller = "none"
  /\ caller' = "api"
  /\ \E config \in ApiConfigs : mgr' = NewManager(config)
  /\ UNCHANGED <<validated, xhost, proc, op, out, ready, issued, aux, calls>>

\* a further call on the existing manager
Invoke(call) ==
  /\ UNCHANGED pureVars
  /\ caller = "api"
  /\ Returned
  /\ calls < MaxCalls
  /\ calls' = calls + 1
  /\ op' = call
  /\ mgr' = (IF call.name \in {"stop", "restart"}
               THEN [mgr EXCEPT !.stop_requested = TRUE] ELSE mgr)
  /\ out' = (IF call.name = "restart" /\ call.hasOut
               THEN <<<<"Stopping container...">>>> ELSE <<>>)
  /\ ready' = 0
  /\ issued' = <<>>
  /\ aux' = AuxIdle
  /\ UNCHANGED <<caller, validated, xhost, proc>>

ApiStart ==
  \E detached, force, hasOut, hasReady \in BOOLEAN :
    Invoke(StartCall(detached, force, hasOut, hasReady))

ApiStop == \E grace \in GracePeriods : Invoke(StopCall(grace))

ApiRestart == \E hasOut \in BOOLEAN : Invoke(RestartCall(hasOut))

ApiStatus == \E name \in {"status", "is_running"} : Invoke(StatusCall(name))

(***************************************************************************)
(* ContainerManager.start                                                  *)
(***************************************************************************)
UpCmd == build_compose_command(mgr.config, "up", StartExtraArgs(op.detached, op.force))

Finish(ret) == [op EXCEPT !.pc = "done", !.ret = ret]

\* start's except clause: report through output_callback, return False; an
\* exception no clause catches leaves the operation
StartFails(exc) ==
  IF Caught(exc, start_excepts)
    THEN /\ out' = out \o StartErrorReport(op.hasOut)
         /\ op' = Finish("False")
    ELSE /\ out' = out
         /\ op' = Finish("raised")

\* detached: subprocess.run(cmd, capture_output=True, text=True)
StartDetached ==
  /\ UNCHANGED pureVars
  /\ op.pc = "launch" /\ op.detached
  /\ \E o \in RunOutcomes(NoTimeout, {<<>>}) :
       /\ issued' = Append(issued, Issued(UpCmd, NoTimeout, o))
       /\ IF o.kind = "exit"
            THEN op' = Finish(PyBool(ReturncodeOk(o.rc))) /\ out' = out
          ELSE IF o.kind = "hang"
            THEN op' = [op EXCEPT !.pc = "hung"] /\ out' = out
          ELSE StartFails(o.exc)
  /\ UNCHANGED <<caller, validated, xhost, mgr, proc, ready, aux, calls>>

\* foreground: self.process = subprocess.Popen(cmd, ...) succeeds
StartPopen ==
  /\ UNCHANGED pureVars
  /\ op.pc = "launch" /\ ~op.detached
  /\ \E lines \in LineSeqs :
       /\ proc' = Spawned(lines)
       /\ mgr' = [mgr EXCEPT !.process = TRUE]
       /\ issued' = Append(issued, Issued(UpCmd, NoTimeout, Spawn))
       /\ op' = [op EXCEPT !.signaled = FALSE,
                           !.pc = IF StreamsOutput(op.hasOut) THEN "read" ELSE "wait"]
  /\ UNCHANGED <<caller, validated, xhost, out, ready, aux, calls>>

\* foreground: subprocess.Popen raises
StartPopenFails ==
  /\ UNCHANGED pureVars
  /\ op.pc = "launch" /\ ~op.detached
  /\ \E e \in LaunchErrors :
       /\ issued' = Append(issued, Issued(UpCmd, NoTimeout, Raise(e)))
       /\ StartFails(e)
  /\ UNCHANGED <<caller, validated, xhost, mgr, proc, ready, aux, calls>>

\* one pass of the streaming loop: readline returned a line
StartReadLine ==
  /\ UNCHANGED pureVars
  /\ op.pc = "read"
  /\ proc.nr < proc.nw
  /\ LET stripped == RStrip(proc.lines[proc.nr + 1])
         signal == ShouldSignal(op.hasReady, op.signaled, stripped)
     IN /\ proc' = [proc EXCEPT !.nr = proc.nr + 1]
        /\ out' = Append(out, stripped)
        /\ ready' = IF signal THEN ready + 1 ELSE ready
        /\ op' = [op EXCEPT !.signaled = op.signaled \/ signal,
                            !.pc = IF BreaksLoop(mgr.stop_requested) THEN "wait" ELSE "read"]
  /\ UNCHANGED <<caller, validated, xhost, mgr, issued, aux, calls>>

\* readline returned '' (the process closed its output): the loop ends
StartReadEof ==
  /\ UNCHANGED pureVars
  /\ op.pc = "read"
  /\ proc.nr = proc.nw /\ proc.state = "exited"
  /\ op' = [op EXCEPT !.pc = "wait"]
  /\ UNCHANGED <<caller, validated, xhost, mgr, proc, out, ready, issued, aux, calls>>

\* self.process.wait(); return self.process.returncode == 0
StartWait ==
  /\ UNCHANGED pureVars
  /\ op.pc = "wait"
  /\ WaitReturns(proc)
  /\ op' = Finish(PyBool(ReturncodeOk(proc.rc)))
  /\ UNCHANGED <<caller, validated, xhost, mgr, proc, out, ready, issued, aux, calls>>

(***************************************************************************)
(* The supervised process: writes its lines into the pipe, then exits.     *)
(***************************************************************************)
ProcWrite ==
  /\ UNCHANGED pureVars
  /\ proc.state = "running"
  /\ proc.nw < Len(proc.lines)
  /\ proc.nw - proc.nr < PipeCap
  /\ proc' = [proc EXCEPT !.nw = proc.nw + 1]
  /\ UNCHANGED <<caller, validated, xhost, mgr, op, out, ready, issued, aux, calls>>

ProcExit ==
  /\ UNCHANGED pureVars
  /\ proc.state = "running"
  /\ proc.nw = Len(proc.lines)
  /\ \E rc \in ExitCodes : proc' = [proc EXCEPT !.state = "exited", !.rc = rc]
  /\ UNCHANGED <<caller, validated, xhost, mgr, op, out, ready, issued, aux, calls>>

(***************************************************************************)
(* ContainerManager.stop and ContainerManager.restart                      *)
(***************************************************************************)
\* stop() returned `stopped` to its caller: to the user of stop, or to restart
OpAfterStop(stopped) ==
  IF op.name = "stop"
    THEN [op EXCEPT !.pc = "done", !.ret = PyBool(stopped), !.stopRet = PyBool(stopped)]
  ELSE IF RestartProceeds(stopped)
    THEN [op EXCEPT !.pc = "launch", !.stopRet = PyBool(stopped),
                    !.detached = FALSE, !.force = FALSE, !.hasReady = FALSE]
    ELSE [op EXCEPT !.pc = "done", !.ret = "False", !.stopRet = PyBool(stopped)]

OutAfterStop(stopped) ==
  IF op.name = "restart" /\ op.hasOut
    THEN Append(out, IF RestartProceeds(stopped)
                       THEN <<"Starting container...">>
                       ELSE <<"Failed to stop container">>)
    ELSE out

\* an exception of a subprocess.run inside stop
StopFails(exc) ==
  IF Caught(exc, stop_excepts)
    THEN op' = OpAfterStop(FALSE) /\ out' = OutAfterStop(FALSE)
    ELSE op' = Finish("raised") /\ out' = out

\* subprocess.run(stop_cmd, ..., timeout=stop_timeout + 15)
StopRunStop ==
  /\ UNCHANGED pureVars
  /\ op.pc = "stop_cmd"
  /\ \E o \in RunOutcomes(StopCmdTimeout(op.grace), {<<>>}) :
       /\ issued' = Append(issued,
                      Issued(StopCmd(mgr.config, op.grace), StopCmdTimeout(op.grace), o))
       /\ IF o.kind = "exit"
            THEN op' = [op EXCEPT !.pc = "down_cmd"] /\ out' = out
          ELSE IF o.kind = "hang"
            THEN op' = [op EXCEPT !.pc = "hung"] /\ out' = out
          ELSE StopFails(o.exc)
  /\ UNCHANGED <<caller, validated, xhost, mgr, proc, ready, aux, calls>>

\* result = subprocess.run(down_cmd, ..., timeout=15); return result.returncode == 0
StopRunDown ==
  /\ UNCHANGED pureVars
  /\ op.pc = "down_cmd"
  /\ \E o \in RunOutcomes(DownCmdTimeout, {<<>>}) :
       /\ issued' = Append(issued, Issued(DownCmd(mgr.config), DownCmdTimeout, o))
       /\ IF o.kind = "exit"
            THEN /\ op' = OpAfterStop(ReturncodeOk(o.rc))
                 /\ out' = OutAfterStop(ReturncodeOk(o.rc))
          ELSE IF o.kind = "hang"
            THEN op' = [op EXCEPT !.pc = "hung"] /\ out' = out
          ELSE StopFails(o.exc)
  /\ UNCHANGED <<caller, validated, xhost, mgr, proc, ready, aux, calls>>

(***************************************************************************)
(* stop() called on the same manager from a second thread while the first  *)
(* is inside a foreground start.                                           *)
(***************************************************************************)
AuxStop ==
  /\ UNCHANGED pureVars
  /\ aux.pc = "idle"
  /\ op.pc \in {"read", "wait"}
  /\ aux' = [aux EXCEPT !.pc = "stop_cmd"]
  /\ mgr' = [mgr EXCEPT !.stop_requested = TRUE]
  /\ UNCHANGED <<caller, validated, xhost, proc, op, out, ready, issued, calls>>

AuxRunStop ==
  /\ UNCHANGED pureVars
  /\ aux.pc = "stop_cmd"
  /\ \E o \in RunOutcomes(StopCmdTimeout(aux.grace), {<<>>}) :
       aux' = [aux EXCEPT
                 !.pc = IF o.kind = "exit" THEN "down_cmd"
                        ELSE IF o.kind = "hang" THEN "hung" ELSE "done",
                 !.ret = IF o.kind = "exit" \/ o.kind = "hang" THEN "none"
                         ELSE IF Caught(o.exc, stop_excepts) THEN "False" ELSE "raised"]
  /\ UNCHANGED <<caller, validated, xhost, mgr, proc, op, out, ready, issued, calls>>

AuxRunDown ==
  /\ UNCHANGED pureVars
  /\ aux.pc = "down_cmd"
  /\ \E o \in RunOutcomes(DownCmdTimeout, {<<>>}) :
       aux' = [aux EXCEPT
                 !.pc = IF o.kind = "hang" THEN "hung" ELSE "done",
                 !.ret = IF o.kind = "exit" THEN PyBool(ReturncodeOk(o.rc))
                         ELSE IF o.kind = "hang" THEN "none"
                         ELSE IF Caught(o.exc, stop_excepts) THEN "False" ELSE "raised"]
  /\ UNCHANGED <<caller, validated, xhost, mgr, proc, op, out, ready, issued, calls>>

(***************************************************************************)
(* ContainerManager.status and is_running                                  *)
(***************************************************************************)
PsCmd == build_compose_command(mgr.config, "ps", <<"--format", "json">>)

StatusRun ==
  /\ UNCHANGED pureVars
  /\ op.pc = "ps"
  /\ \E o \in RunOutcomes(StatusTimeout, PsOutputs) :
       /\ issued' = Append(issued, Issued(PsCmd, StatusTimeout, o))
       /\ IF o.kind = "raise" /\ ~Caught(o.exc, status_excepts)
            THEN op' = Finish("raised")
            ELSE op' = [op EXCEPT !.pc = "done", !.st = StatusOf(o),
                                  !.ret = IF op.name = "is_running"
                                            THEN PyBool(is_running(StatusOf(o)))
                                            ELSE "dict"]
  /\ UNCHANGED <<caller, validated, xhost, mgr, proc, out, ready, aux, calls>>

Next ==
  \/ RunStart \/ RunStop \/ RunRestart \/ RunStatus
  \/ GuiStart \/ GuiRestart
  \/ ApiNew \/ ApiStart \/ ApiStop \/ ApiRestart \/ ApiStatus
  \/ StartDetached \/ StartPopen \/ StartPopenFails
  \/ StartReadLine \/ StartReadEof \/ StartWait
  \/ ProcWrite \/ ProcExit
  \/ StopRunStop \/ StopRunDown
  \/ AuxStop \/ AuxRunStop \/ AuxRunDown
  \/ StatusRun

Spec == Init /\ [][Next]_vars

(***************************************************************************)
(* Properties.                                                             *)
(***************************************************************************)
Min(a, b) == IF a < b THEN a ELSE b

\* an 'up' command was launched (or its launch attempted) in this operation
UpIssued == \E i \in 1..Len(issued) : ActionOf(issued[i].cmd) = "up"

FrontEndStartPaths == {"cli_start", "cli_restart", "gui_start", "gui_restart"}

\* C1: on every caller path (CLI start, CLI restart, GUI start, GUI restart)
\* an 'up' command is launched only after validate_system ran on the same
\* configuration and returned is_valid = true; after a blocking finding no
\* 'up' command is launched.
C1_UpOnlyAfterValidation ==
  /\ (caller \in FrontEndStartPaths /\ UpIssued)
       => (validated.ran /\ validated.valid /\ validated.config = mgr.config)
  /\ (validated.ran /\ ~validated.valid) => ~UpIssued

\* the stop() call inside the current operation has returned
StopReturned == op.name \in {"stop", "restart"} /\ op.stopRet # "none"

\* C2: stop(gracePeriod) first runs 'stop -t gracePeriod' with timeout
\* gracePeriod + 15 and only after it returned runs 'down' with timeout 15;
\* it returns true only if 'down' exits with code zero, and a timeout of
\* either command makes it return false with no further command issued.
C2_StopTwoPhase ==
  op.name \in {"stop", "restart"} =>
    /\ Len(issued) >= 1 =>
         /\ issued[1].cmd = build_compose_command(mgr.config, "stop",
                                                  <<"-t", ToString(op.grace)>>)
         /\ issued[1].timeout = op.grace + 15
    /\ Len(issued) >= 2 =>
         /\ issued[1].kind = "exit"
         /\ issued[2].cmd = build_compose_command(mgr.config, "down", <<>>)
         /\ issued[2].timeout = 15
    /\ op.name = "stop" => Len(issued) <= 2
    /\ StopReturned =>
         (op.stopRet = "True"
            <=> (Len(issued) >= 2 /\ issued[2].kind = "exit" /\ issued[2].rc = 0))
    /\ \A i \in 1..Min(Len(issued), 2) :
         issued[i].exc = "TimeoutExpired" =>
           /\ Len(issued) = i
           /\ op.pc = "done"
           /\ op.stopRet = "False"

\* a stop whose 'down' command timed out, after the 'stop' command returned
C2_Witness ==
  /\ op.name = "stop" /\ op.pc = "done" /\ op.grace = 0
  /\ Len(issued) = 2
  /\ issued[1].kind = "exit" /\ issued[1].rc = 1
  /\ issued[2].exc = "TimeoutExpired"
  /\ op.ret = "False"

\* the lines (with their trailing blanks removed) that carry a readiness marker
IsMarkerLine(line) ==
  \E i \in 1..Len(line) : line[i] \in {"[Loading] SUCCESS", "Started!"}

MarkersDelivered == Cardinality({i \in 1..Len(out) : IsMarkerLine(out[i])})

\* C3: during one foreground start the readiness callback is invoked at most
\* once, however many output lines contain a readiness marker.
C3_ReadyAtMostOnce ==
  (op.name \in {"start", "restart"} /\ ~op.detached) => ready <= 1

\* two marker lines were delivered and the callback was invoked once
C3_Witness ==
  /\ op.name = "start" /\ ~op.detached /\ op.hasReady
  /\ MarkersDelivered >= 2
  /\ ready = 1

\* a foreground start whose process was launched in this operation
ProcessLaunched == \E i \in 1..Len(issued) : issued[i].kind = "spawned"

\* the current operation is a plain call of start(detached=False, ...)
ForegroundStartDone ==
  op.name = "start" /\ ~op.detached /\ op.pc = "done" /\ ProcessLaunched

AllLinesStripped == [i \in 1..Len(proc.lines) |-> RStrip(proc.lines[i])]

\* C4: a foreground start (with no stop requested) gives every line of the
\* process's output to onOutputLine, and the first line with a readiness
\* marker triggers onReady exactly once, for every combination of supplied
\* callbacks (also when onReady is supplied and onOutputLine is not).
C4_EveryLineAndReadyOnce ==
  (ForegroundStartDone /\ ~mgr.stop_requested) =>
    /\ op.hasOut => out = AllLinesStripped
    /\ (op.hasReady /\ \E i \in 1..Len(proc.lines) : IsMarkerLine(proc.lines[i]))
         => ready = 1

\* the detached start's single command, once it has been run
DetachedRan == op.name = "start" /\ op.detached /\ Len(issued) = 1

\* C5 as stated: start(detached = true) never invokes onOutputLine or
\* onReady, whatever the outcome of 'up -d' (exit zero, non-zero exit,
\* failure to launch), and its result is true iff the exit code is zero.
C5_DetachedNeverCallsBack ==
  (op.name = "start" /\ op.detached) =>
    /\ out = <<>>
    /\ ready = 0
    /\ op.pc = "done" =>
         (op.ret = "True" <=> (issued[1].kind = "exit" /\ issued[1].rc = 0))

\* C5 as amended: start(detached = true) never invokes onReady; it invokes
\* onOutputLine only when the 'up -d' command cannot be launched, and then
\* exactly once, with the 'Error starting container' message; its result is
\* true iff the command's exit code is zero.
C5_DetachedCallsBackOnlyOnLaunchError ==
  (op.name = "start" /\ op.detached) =>
    /\ ready = 0
    /\ out \in {<<>>, <<<<"Error starting container">>>>}
    /\ out # <<>> <=> (DetachedRan /\ issued[1].kind = "raise" /\ op.hasOut)
    /\ op.pc = "done" =>
         /\ op.ret \in {"True", "False"}
         /\ op.ret = "True" <=> (issued[1].kind = "exit" /\ issued[1].rc = 0)

\* a detached start that could not launch the runtime reported it
C5_Witness ==
  /\ op.name = "start" /\ op.detached /\ op.hasOut /\ op.hasReady
  /\ op.pc = "done" /\ op.ret = "False"
  /\ issued[1].exc = "FileNotFoundError"
  /\ out = <<<<"Error starting container">>>>

\* a foreground start (also the one restart makes) that launched its process
ForegroundLaunched ==
  op.name \in {"start", "restart"} /\ ~op.detached /\ ProcessLaunched

\* C6: a foreground start does not return before the supervised process has
\* exited, and its result is true iff the exit code is zero; a stop request
\* ends the output loop early, but the start still waits for the process
\* and still returns by the exit code.
C6_ReturnsAfterExit ==
  ForegroundLaunched =>
    /\ op.pc = "done" =>
         /\ proc.state = "exited"
         /\ op.ret \in {"True", "False"}
         /\ op.ret = "True" <=> proc.rc = 0
    /\ proc.state = "running" => (op.pc \in {"read", "wait"} /\ op.ret = "none")

\* the loop was ended by a stop request with output still unread; the start
\* waited for the process and returned True for exit code 0
C6_Witness ==
  /\ op.name = "start" /\ op.hasOut /\ op.pc = "done"
  /\ ProcessLaunched
  /\ aux.pc # "idle"
  /\ Len(out) < Len(proc.lines)
  /\ proc.state = "exited" /\ proc.rc = 0
  /\ op.ret = "True"

\* C7: restart launches 'up' only after stop returned true; if stop returns
\* false it launches no 'up', gives 'Failed to stop container' to
\* onOutputLine (when supplied) before returning, and returns false.
C7_RestartStopThenStart ==
  op.name = "restart" =>
    /\ UpIssued =>
         /\ op.stopRet = "True"
         /\ Len(issued) = 3
         /\ ActionOf(issued[1].cmd) = "stop"
         /\ ActionOf(issued[2].cmd) = "down"
         /\ ActionOf(issued[3].cmd) = "up"
    /\ op.stopRet = "False" =>
         /\ ~UpIssued
         /\ op.pc = "done"
         /\ op.ret = "False"
         /\ op.hasOut => out[Len(out)] = <<"Failed to stop container">>
         /\ ~op.hasOut => out = <<>>

\* a restart whose stop failed on a non-zero exit of 'down'
C7_Witness ==
  /\ op.name = "restart" /\ op.hasOut /\ op.pc = "done"
  /\ op.stopRet = "False" /\ op.ret = "False"
  /\ Len(issued) = 2 /\ issued[2].kind = "exit" /\ issued[2].rc = 1
  /\ out = << <<"Stopping container...">>, <<"Failed to stop container">> >>

\* status() (or is_running) has returned its dict
StatusDone == op.name \in {"status", "is_running"} /\ op.pc = "done"

\* the 'ps' query ended in a timeout, a non-zero exit or a launch failure
QueryFailed == issued[1].kind = "raise" \/ issued[1].rc # 0

\* C8 as stated: status() reports running = true iff the 'ps' query exited
\* with code zero and its output contains the name 'tlauncher'; a timeout, a
\* non-zero exit or a launch failure gives running = false with an error
\* string, and status never raises.
C8_RunningIffNameInOutput ==
  StatusDone =>
    /\ op.ret # "raised"
    /\ op.st.running
         <=> (issued[1].kind = "exit" /\ issued[1].rc = 0
                /\ \E i \in 1..Len(issued[1].stdout) : issued[1].stdout[i] = "tlauncher")
    /\ QueryFailed =>
         (~op.st.running /\ op.st.key = "error" /\ op.st.text # <<>>)

\* C8 as amended: status() reports running = true iff the 'ps' query exited
\* with code zero and its output contains the name 'tlauncher' in any
\* letter case; a timeout, a non-zero exit or a launch failure gives
\* running = false with an error string, and status never raises.
C8_RunningIffNameInOutputAnyCase ==
  StatusDone =>
    /\ op.ret # "raised"
    /\ op.st.running
         <=> (issued[1].kind = "exit" /\ issued[1].rc = 0
                /\ \E i \in 1..Len(issued[1].stdout) :
                     issued[1].stdout[i] \in {"tlauncher", "TLauncher"})
    /\ QueryFailed =>
         (~op.st.running /\ op.st.key = "error" /\ op.st.text # <<>>)
    /\ op.name = "is_running" => (op.ret = "True" <=> op.st.running)

\* the query printed the name in mixed case only and status reported running
C8_Witness ==
  /\ op.name = "status" /\ op.pc = "done"
  /\ issued[1].kind = "exit" /\ issued[1].rc = 0
  /\ issued[1].stdout = <<" ", "TLauncher">>
  /\ op.st.running

\* C9: stop() on a workload that is not running ('stop' and 'down' both
\* exit with code zero) returns true; and stop always ends with a boolean:
\* each of its two commands runs under a finite timeout, so it never waits
\* without bound.
C9_StopReturnsBoolean ==
  /\ op.name = "stop" =>
       /\ op.pc \in {"stop_cmd", "down_cmd", "done"}
       /\ op.pc = "done" => op.ret \in {"True", "False"}
       /\ \A i \in 1..Len(issued) : issued[i].timeout \in {op.grace + 15, 15}
       /\ (/\ Len(issued) = 2
           /\ \A i \in 1..2 : issued[i].kind = "exit" /\ issued[i].rc = 0)
            => (op.pc = "done" /\ op.ret = "True")
  /\ aux.pc \in {"idle", "stop_cmd", "down_cmd", "done"}
  /\ aux.pc = "done" => aux.ret \in {"True", "False"}

\* both commands were no-ops that exited with code zero: stop returned True
C9_Witness ==
  /\ op.name = "stop" /\ op.pc = "done" /\ op.ret = "True"
  /\ ~mgr.process
  /\ Len(issued) = 2
  /\ issued[1].rc = 0 /\ issued[2].rc = 0

\* some command of the operation could not be launched, timed out or exited
\* with a non-zero code
FaultSeen ==
  \E i \in 1..Len(issued) :
    issued[i].kind = "raise" \/ (issued[i].kind = "exit" /\ issued[i].rc # 0)

ErrorMessages == {<<"Error starting container">>, <<"Failed to stop container">>}

\* the operation gave its caller a message about the failure
MessageGiven ==
  IF op.name \in {"status", "is_running"}
    THEN op.st.key = "error" /\ op.st.text # <<>>
    ELSE \E i \in 1..Len(out) : out[i] \in ErrorMessages

\* the operation returned what its signature promises, without raising
ReturnsValue ==
  IF op.name = "status"
    THEN op.ret = "dict"
    ELSE op.ret \in {"True", "False"}

\* C10 as stated: for every outcome of launching an external command
\* (executable missing, non-zero exit, timeout, other launch error) start,
\* stop and restart return a boolean and status returns a record with
\* running = false, each accompanied by a human-readable message, and none
\* of them raises.
C10_FaultGivesResultAndMessage ==
  (op.pc = "done" /\ FaultSeen) =>
    /\ ReturnsValue
    /\ op.name \in {"status", "is_running"} => ~op.st.running
    /\ MessageGiven

\* C10 as amended: for every such outcome start, stop and restart return a
\* boolean, status returns a record with running = false and an error
\* string, and none of them raises; the only other messages are start's
\* 'Error starting container' for a command that could not be launched and
\* restart's 'Failed to stop container' for a failed stop, both given only
\* when onOutputLine is supplied; stop itself gives no message.
C10_FaultGivesResult ==
  (op.pc = "done" /\ FaultSeen) =>
    /\ ReturnsValue
    /\ op.name \in {"status", "is_running"} =>
         (~op.st.running /\ op.st.key = "error" /\ op.st.text # <<>>)
    /\ op.name = "stop" => (op.ret = "False" \/ issued[2].rc = 0) /\ out = <<>>
    /\ (op.name = "start" /\ issued[Len(issued)].kind = "raise") =>
         /\ op.ret = "False"
         /\ op.hasOut => out[Len(out)] = <<"Error starting container">>
         /\ ~op.hasOut => out = <<>>
    /\ (op.name = "restart" /\ op.stopRet = "False") =>
         /\ op.ret = "False"
         /\ op.hasOut => out[Len(out)] = <<"Failed to stop container">>
         /\ ~op.hasOut => out = <<>>

\* stop failed on a runtime that could not be launched: False, and no message
C10_Witness ==
  /\ op.name = "stop" /\ op.pc = "done"
  /\ issued[1].exc = "FileNotFoundError"
  /\ op.ret = "False"
  /\ out = <<>>

(***************************************************************************)
(* A run of validate_system, check by check.  Each check probes the host   *)
(* when it runs, so the facts of the host are drawn at the step that reads *)
(* them: a fact that no check of this configuration reads stays absent.    *)
(***************************************************************************)
\* compose files that may be missing at once
MaxMissingFiles == 2

ValConfigs ==
  [ runtime : {"podman", "docker"}, gpu : {"nvidia", "amd"},
    display : {"x11", "wayland"}, audio : {"pulseaudio", "none"},
    auto_xhost : BOOLEAN ]

NoResult == [is_valid |-> FALSE, issues |-> <<>>]

NeededFiles(config) ==
  LET files == get_compose_files(config) IN {files[i] : i \in 1..Len(files)}

CheckInit ==
  /\ InitManager
  /\ check \in {[pc |-> "runtime", config |-> c, host |-> BareHost, result |-> NoResult] :
                  c \in ValConfigs}
  /\ probe = NoRun
  /\ prefs = NoRun
  /\ gui = NoRun

\* the check looks at the host: the next check is `next`
Probed(host, next) ==
  /\ check' = [check EXCEPT !.host = host, !.pc = next]
  /\ UNCHANGED <<managerVars, probe, prefs, gui>>

\* _check_runtime: shutil.which(runtime), then '<runtime> --version'
ProbeRuntime ==
  /\ check.pc = "runtime"
  /\ \E onPath \in BOOLEAN, version \in {"ok", "nonzero", "TimeoutExpired", "OSError"} :
       /\ onPath \/ version = "ok"
       /\ Probed([check.host EXCEPT
                    !.which = IF onPath THEN {check.config["runtime"]} ELSE {},
                    !.version = version], "gpu")

\* _check_gpu: Path(..).exists() on the device nodes of the selected vendor
ProbeGpu ==
  /\ check.pc = "gpu"
  /\ \E found \in SUBSET (IF check.config["gpu"] = "nvidia"
                               THEN {"/dev/nvidia0", "/dev/nvidiactl"}
                             ELSE IF check.config["gpu"] = "amd" THEN {"/dev/dri"}
                             ELSE {}) :
       Probed([check.host EXCEPT !.paths = @ \cup found], "display")

\* _check_display: os.environ.get and Path(..).exists()
ProbeDisplay ==
  /\ check.pc = "display"
  /\ \E found \in SUBSET (IF check.config["display"] = "x11"
                               THEN {"/tmp/.X11-unix"} ELSE {}),
        set \in SUBSET (IF check.config["display"] = "x11" THEN {"DISPLAY"}
                         ELSE IF check.config["display"] = "wayland"
                           THEN {"WAYLAND_DISPLAY"}
                         ELSE {}) :
       Probed([check.host EXCEPT !.paths = @ \cup found, !.env = @ \cup set], "audio")

\* _check_audio: Path(..).exists() on the pulse socket and /dev/snd
ProbeAudio ==
  /\ check.pc = "audio"
  /\ \E found \in SUBSET (IF check.config["audio"] = "pulseaudio"
                               THEN {"/run/user/uid/pulse/native", "/dev/snd"}
                               ELSE {}) :
       Probed([check.host EXCEPT !.paths = @ \cup found], "compose")

\* _check_compose_files: (compose_dir / f).exists() for each file
ProbeComposeFiles ==
  /\ check.pc = "compose"
  /\ \E missing \in SUBSET NeededFiles(check.config) :
       /\ Cardinality(missing) <= MaxMissingFiles
       /\ Probed([check.host EXCEPT !.files = NeededFiles(check.config) \ missing],
                 "xhost")

\* _check_xhost: shutil.which('xhost') and the 'xhost' query, only for x11
\* with auto_xhost
ProbeXhost ==
  /\ check.pc = "xhost"
  /\ IF WantsXhost(check.config)
       THEN \E onPath \in BOOLEAN, query \in {"listed", "unlisted", "nonzero", "raise"} :
              /\ onPath \/ query = "listed"
              /\ Probed([check.host EXCEPT
                           !.which = IF onPath THEN @ \cup {"xhost"} ELSE @,
                           !.xhost = query], "return")
       ELSE Probed(check.host, "return")

\* return not has_errors, issues
ValidateReturn ==
  /\ check.pc = "return"
  /\ check' = [check EXCEPT !.result = validate_system(check.config, check.host),
                            !.pc = "done"]
  /\ UNCHANGED <<managerVars, probe, prefs, gui>>

CheckNext ==
  \/ ProbeRuntime \/ ProbeGpu \/ ProbeDisplay \/ ProbeAudio
  \/ ProbeComposeFiles \/ ProbeXhost \/ ValidateReturn

ValidatorSpec == CheckInit /\ [][CheckNext]_vars

(***************************************************************************)
(* Properties of validate_system.                                          *)
(***************************************************************************)
CheckDone == check.pc = "done"

Runtimes == {"podman", "docker"}

\* the messages of each of the six checks, in the order of the checks
CheckMessages ==
  << {r \o " is not installed or not in PATH" : r \in Runtimes}
       \cup {r \o " is installed but not working properly" : r \in Runtimes}
       \cup {r \o " command timed out" : r \in Runtimes}
       \cup {"Error checking " \o r : r \in Runtimes},
     { "NVIDIA GPU selected but /dev/nvidia0 not found",
       "/dev/nvidiactl device not found",
       "/dev/dri not found - no GPU acceleration available" },
     { "X11 selected but DISPLAY environment variable not set",
       "X11 socket directory /tmp/.X11-unix not found",
       "Wayland selected but WAYLAND_DISPLAY not set" },
     { "PulseAudio socket not found",
       "/dev/snd not found - ALSA devices unavailable" },
     {"Compose file not found: " \o get_compose_directory \o "/" \o f : f \in AllComposeFiles},
     { "xhost command not found", "X11 access may need to be granted" } >>

\* the check an issue comes from: 1 runtime, 2 gpu, 3 display, 4 audio,
\* 5 compose files, 6 access grant (0: from none of them)
CheckOf(issue) ==
  IF \E k \in 1..Len(CheckMessages) : issue.message \in CheckMessages[k]
    THEN CHOOSE k \in 1..Len(CheckMessages) : issue.message \in CheckMessages[k]
    ELSE 0

\* C11: validate_system returns is_valid = true iff no returned issue has
\* level 'error' (so a configuration with only 'warning' issues is valid),
\* every issue comes from one of the six checks, and the issues are in the
\* order of the checks: runtime, gpu, display, audio, compose files, access
\* grant.
C11_ValidIffNoBlockingInOrder ==
  CheckDone =>
    LET issues == check.result.issues IN
    /\ check.result.is_valid <=> (\A i \in 1..Len(issues) : issues[i].level # "error")
    /\ \A i \in 1..Len(issues) :
         /\ issues[i].level \in {"error", "warning"}
         /\ CheckOf(issues[i]) # 0
    /\ \A i, j \in 1..Len(issues) : i < j => CheckOf(issues[i]) <= CheckOf(issues[j])

\* a valid configuration with advisory issues from three different checks
C11_Witness ==
  /\ CheckDone
  /\ check.result.is_valid
  /\ Cardinality({CheckOf(check.result.issues[i]) : i \in 1..Len(check.result.issues)}) >= 3

\* the findings on the probed host
RuntimeUnavailable ==
  \/ check.config["runtime"] \notin check.host.which
  \/ check.host.version = "nonzero"

ComposeFileMissing == ~(NeededFiles(check.config) \subseteq check.host.files)

NvidiaNodeMissing ==
  check.config["gpu"] = "nvidia" /\ "/dev/nvidia0" \notin check.host.paths

X11VariableMissing ==
  check.config["display"] = "x11" /\ "DISPLAY" \notin check.host.env

X11SocketMissing ==
  check.config["display"] = "x11" /\ "/tmp/.X11-unix" \notin check.host.paths

HasIssue(message, level) ==
  \E i \in 1..Len(check.result.issues) :
    check.result.issues[i] = ValidationIssue(message, level)

WaylandVariableMissing ==
  check.config["display"] = "wayland" /\ "WAYLAND_DISPLAY" \notin check.host.env

\* the issues of the display check among the returned ones
DisplayIssues ==
  {i \in 1..Len(check.result.issues) : CheckOf(check.result.issues[i]) = 3}

\* each absent display precondition of the selected protocol gives one issue
OneIssuePerAbsence ==
  Cardinality(DisplayIssues) =
    Cardinality({x \in {"variable", "socket", "wayland"} :
                   \/ x = "variable" /\ X11VariableMissing
                   \/ x = "socket" /\ X11SocketMissing
                   \/ x = "wayland" /\ WaylandVariableMissing})

MaxLspciLen == 2
\* timeout=2 of 'lspci' and of 'pactl info'
DetectTimeout == 2

\* except (subprocess.TimeoutExpired, FileNotFoundError)
detect_excepts == <<"TimeoutExpired", "FileNotFoundError">>

detect_runtime(host) ==
  IF "podman" \in host.which THEN "podman"
  ELSE IF "docker" \in host.which THEN "docker"
  ELSE "podman"

detect_gpu(host) ==
  IF "/dev/nvidia0" \in host.paths \/ "/dev/nvidiactl" \in host.paths THEN "nvidia"
  ELSE IF "/dev/dri" \in host.paths /\ host.cards THEN "amd"
  ELSE IF host.cmd.kind = "raise"
    THEN (IF Caught(host.cmd.exc, detect_excepts) THEN "amd" ELSE "raised")
  ELSE LET output == Lower(host.cmd.stdout) IN
       IF \/ Contains(output, "nvidia") \/ Contains(output, "geforce")
          \/ Contains(output, "quadro") \/ Contains(output, "rtx")
         THEN "nvidia"
       ELSE IF Contains(output, "amd") \/ Contains(output, "radeon") THEN "amd"
       ELSE IF Contains(output, "intel") /\ Contains(output, "vga") THEN "amd"
       ELSE "amd"

\* detect_display that looks at DISPLAY before WAYLAND_DISPLAY
detect_display_DisplayFirst(host) ==
  LET session_type == LowerTok(host.env["XDG_SESSION_TYPE"]) IN
  IF session_type \in {"x11", "wayland"} THEN session_type
  ELSE IF Truthy(host.env["DISPLAY"]) THEN "x11"
  ELSE IF Truthy(host.env["WAYLAND_DISPLAY"]) THEN "wayland"
  ELSE "x11"

detect_display(host) ==
  LET session_type == LowerTok(host.env["XDG_SESSION_TYPE"]) IN
  IF session_type \in {"x11", "wayland"} THEN session_type
  ELSE IF Truthy(host.env["WAYLAND_DISPLAY"]) THEN "wayland"
  ELSE IF Truthy(host.env["DISPLAY"]) THEN "x11"
  ELSE "x11"

detect_audio(host) ==
  IF "/run/user/uid/pulse/native" \in host.paths THEN "pulseaudio"
  ELSE IF host.cmd.kind = "raise"
    THEN (IF Caught(host.cmd.exc, detect_excepts) THEN "none" ELSE "raised")
  ELSE IF host.cmd.rc = 0 /\ Contains(host.cmd.stdout, "Server Name:")
    THEN "pulseaudio"
  ELSE "none"

(***************************************************************************)
(* A run of detect_system: the four probes in the order of its dict        *)
(* literal, each looking at the host when it runs.                         *)
(***************************************************************************)
\* a host on which every variable and device node is absent and the
\* diagnostic command cannot be found
NoFacts ==
  [ which |-> {}, paths |-> {}, cards |-> FALSE,
    env |-> [XDG_SESSION_TYPE |-> "", WAYLAND_DISPLAY |-> "", DISPLAY |-> ""],
    cmd |-> Raise("FileNotFoundError") ]

LspciOutputs ==
  SeqsUpTo({"NVIDIA", "GeForce", "quadro", "rtx", "AMD", "Radeon", "Intel", "VGA",
            "Audio"}, MaxLspciLen)

ProbeInit ==
  /\ InitManager
  /\ gui = NoRun
  /\ check = NoRun
  /\ prefs = NoRun
  /\ probe = [pc |-> "detect_runtime", fn |-> "none", host |-> NoFacts,
              ret |-> "none", detected |-> EmptyDict]

\* probe function fn ran on host and returned ret (or raised): detect_system
\* stores the value under key and calls the next probe, or is left by the
\* exception
Called(fn, key, host, ret, next) ==
  /\ probe' = [pc |-> IF ret = "raised" THEN "raised" ELSE next,
               fn |-> fn, host |-> host, ret |-> ret,
               detected |-> IF ret = "raised" THEN probe.detected
                            ELSE Put(probe.detected, key, ret)]
  /\ UNCHANGED <<managerVars, check, prefs, gui>>

DetectRuntime ==
  /\ probe.pc = "detect_runtime"
  /\ \E which \in SUBSET {"podman", "docker"} :
       LET host == [NoFacts EXCEPT !.which = which]
       IN Called("detect_runtime", "runtime", host, detect_runtime(host), "detect_gpu")

DetectGpu ==
  /\ probe.pc = "detect_gpu"
  /\ \E paths \in SUBSET {"/dev/nvidia0", "/dev/nvidiactl", "/dev/dri"},
        cards \in BOOLEAN, cmd \in RunOutcomes(DetectTimeout, LspciOutputs) :
       /\ cards => "/dev/dri" \in paths
       /\ LET host == [NoFacts EXCEPT !.paths = paths, !.cards = cards, !.cmd = cmd]
          IN Called("detect_gpu", "gpu", host, detect_gpu(host), "detect_display")

DetectDisplay ==
  /\ probe.pc = "detect_display"
  /\ \E env \in [ XDG_SESSION_TYPE : {"", "x11", "wayland", "X11", "Wayland", "tty"},
                  WAYLAND_DISPLAY : {"", "wayland-0"},
                  DISPLAY : {"", ":0"} ] :
       LET host == [NoFacts EXCEPT !.env = env]
       IN Called("detect_display", "display", host, detect_display(host), "detect_audio")

DetectAudio ==
  /\ probe.pc = "detect_audio"
  /\ \E paths \in SUBSET {"/run/user/uid/pulse/native"},
        cmd \in RunOutcomes(DetectTimeout,
                            {<<>>, <<"Server Name:">>, <<"Connection failure">>}) :
       LET host == [NoFacts EXCEPT !.paths = paths, !.cmd = cmd]
       IN Called("detect_audio", "audio", host, detect_audio(host), "done")

\* validate_system's _check_gpu on the host detect_gpu just looked at, for a
\* configuration that uses the detected vendor
CheckDetectedGpu ==
  /\ probe.pc = "detect_display" /\ probe.fn = "detect_gpu"
  /\ LET issues == _check_gpu([gpu |-> probe.detected["gpu"]], probe.host)
     IN probe' = [probe EXCEPT
                    !.pc = "gpu_checked", !.fn = "_check_gpu",
                    !.ret = IF \E i \in 1..Len(issues) : is_blocking(issues[i])
                              THEN "blocked" ELSE "passed"]
  /\ UNCHANGED <<managerVars, check, prefs, gui>>

DetectorNext ==
  \/ DetectRuntime \/ DetectGpu \/ DetectDisplay \/ DetectAudio
  \/ CheckDetectedGpu

DetectorSpec == ProbeInit /\ [][DetectorNext]_vars

(***************************************************************************)
(* Properties of the probes.                                               *)
(***************************************************************************)
\* C14: each probe returns a value of its enum and never raises, on every
\* host: detect_runtime in {podman, docker}, detect_gpu in {nvidia, amd},
\* detect_display in {x11, wayland}, detect_audio in {pulseaudio, none},
\* also when every variable and device node is absent and the diagnostic
\* command cannot be run, fails or times out.
C14_ProbesTotal ==
  /\ probe.fn = "detect_runtime" => probe.ret \in {"podman", "docker"}
  /\ probe.fn = "detect_gpu" => probe.ret \in {"nvidia", "amd"}
  /\ probe.fn = "detect_display" => probe.ret \in {"x11", "wayland"}
  /\ probe.fn = "detect_audio" => probe.ret \in {"pulseaudio", "none"}

\* the stdout of the diagnostic command holds one of the words, in the
\* spellings the model's outputs use
Mentions(words) ==
  /\ probe.host.cmd.kind = "exit"
  /\ \E i \in 1..Len(probe.host.cmd.stdout) : probe.host.cmd.stdout[i] \in words

\* C15: detect_gpu applies its signals in strict priority order: an nvidia
\* device node gives nvidia whatever else holds; otherwise a card device in
\* /dev/dri gives amd whatever lspci prints; otherwise a case-insensitive
\* keyword match on the lspci output decides, nvidia keywords before amd
\* keywords; and if nothing matches or lspci cannot be run the result is
\* amd.
C15_GpuPriority ==
  probe.fn = "detect_gpu" =>
    probe.ret =
      IF "/dev/nvidia0" \in probe.host.paths \/ "/dev/nvidiactl" \in probe.host.paths
        THEN "nvidia"
      ELSE IF "/dev/dri" \in probe.host.paths /\ probe.host.cards
        THEN "amd"
      ELSE IF Mentions({"nvidia", "NVIDIA", "geforce", "GeForce", "quadro", "rtx"})
        THEN "nvidia"
      ELSE "amd"

\* C16: detect_display returns the value of XDG_SESSION_TYPE whenever that
\* variable holds x11 or wayland, whatever DISPLAY and WAYLAND_DISPLAY hold;
\* otherwise it returns the protocol whose own variable is set; and when
\* neither is set it returns x11.
C16_SessionTypeThenVariables ==
  probe.fn = "detect_display" =>
    LET env == probe.host.env IN
    IF env["XDG_SESSION_TYPE"] \in {"x11", "wayland"}
      THEN probe.ret = env["XDG_SESSION_TYPE"]
    ELSE /\ (env["WAYLAND_DISPLAY"] # "" /\ env["DISPLAY"] = "") => probe.ret = "wayland"
         /\ (env["DISPLAY"] # "" /\ env["WAYLAND_DISPLAY"] = "") => probe.ret = "x11"
         /\ (env["DISPLAY"] = "" /\ env["WAYLAND_DISPLAY"] = "") => probe.ret = "x11"
         /\ probe.ret \in {"x11", "wayland"}

\* C16 (amended): detect_display returns the lower-cased value of
\* XDG_SESSION_TYPE whenever that is x11 or wayland (the variable is
\* matched in any letter case), whatever DISPLAY and WAYLAND_DISPLAY hold;
\* otherwise it returns wayland when WAYLAND_DISPLAY is non-empty, also
\* when DISPLAY is non-empty too; otherwise x11.
C16_SessionTypeAnyCaseThenWayland ==
  probe.fn = "detect_display" =>
    LET env == probe.host.env IN
    probe.ret =
      IF env["XDG_SESSION_TYPE"] \in {"x11", "X11"} THEN "x11"
      ELSE IF env["XDG_SESSION_TYPE"] \in {"wayland", "Wayland"} THEN "wayland"
      ELSE IF env["WAYLAND_DISPLAY"] # "" THEN "wayland"
      ELSE "x11"

\* a capitalised session type decides against the only variable that is set
C16_Witness ==
  /\ probe.fn = "detect_display"
  /\ probe.host.env["XDG_SESSION_TYPE"] = "Wayland"
  /\ probe.host.env["DISPLAY"] # "" /\ probe.host.env["WAYLAND_DISPLAY"] = ""
  /\ probe.ret = "wayland"

(***************************************************************************)
(* The path of a configuration: the saved file is loaded, merged with the  *)
(* detection result (after the command-line overrides, or through the      *)
(* dropdowns of the GUI) and handed to validate_system or to a             *)
(* ContainerManager.                                                       *)
(***************************************************************************)
\* config.py load_config; file.exists is CONFIG_FILE.exists(), file.yaml
\* what yaml.safe_load(f) or {} gives
load_config(file) ==
  IF ~file.exists THEN EmptyDict
  ELSE [ runtime |-> Get(file.yaml, "runtime", ""),
         gpu |-> Get(file.yaml, "gpu", ""),
         display |-> Get(file.yaml, "display", ""),
         audio |-> Get(file.yaml, "audio", ""),
         auto_xhost |-> Get(file.yaml, "auto_xhost", TRUE) ]

\* what config.yaml may hold: nothing, some keys, blank values, values
\* with blanks around them
ConfigFiles ==
  {[exists |-> FALSE, yaml |-> EmptyDict]}
    \cup { [exists |-> TRUE, yaml |-> y] :
             y \in {EmptyDict, [gpu |-> "amd"]}
                     \cup [ runtime : {"", "docker", " docker "},
                            gpu : {"", " ", "nvidia", "intel"},
                            display : {"", "wayland"}, audio : {"", "none"},
                            auto_xhost : BOOLEAN ] }

\* merged = detected.copy(): the writes of merge_config go to the copy, the
\* caller's dict stays as it was
DetectedAfterMerge(detected, saved) == detected

\* gui.py _update_ui_from_config: the dropdowns after loading
_update_ui_from_config(config, detected) ==
  [ k \in {"runtime", "gpu", "display", "audio"} |->
      IF ~Truthy(Get(config, k, "")) \/ config[k] = detected[k]
        THEN "auto" ELSE config[k] ]

PrefsInit ==
  /\ InitManager
  /\ gui = NoRun
  /\ check = NoRun
  /\ probe = NoRun
  /\ prefs \in { [ pc |-> "start", route |-> "none", file |-> f, detected |-> d,
                   saved |-> EmptyDict, args |-> EmptyDict, config |-> EmptyDict,
                   again |-> EmptyDict, sentTo |-> "none" ] :
                 f \in ConfigFiles,
                 d \in [ runtime : {"podman", "docker"}, gpu : {"nvidia", "amd"},
                         display : {"x11", "wayland"}, audio : {"pulseaudio", "none"} ] }

\* saved = load_config()
LoadConfig ==
  /\ prefs.pc = "start"
  /\ prefs' = [prefs EXCEPT !.pc = "loaded", !.route = "file",
                            !.saved = load_config(prefs.file)]
  /\ UNCHANGED <<managerVars, check, probe, gui>>

\* a caller of merge_config that builds the saved dict itself
PassDict ==
  /\ prefs.pc = "start"
  /\ \E x \in {"docker", " docker "} :
       prefs' = [prefs EXCEPT !.pc = "loaded", !.route = "dict",
                              !.saved = [runtime |-> x]]
  /\ UNCHANGED <<managerVars, check, probe, gui>>

\* config = merge_config(detected, saved)
MergeConfig ==
  /\ prefs.pc = "loaded"
  /\ prefs' = [prefs EXCEPT !.pc = "merged",
                            !.config = merge_config(prefs.detected, prefs.saved),
                            !.detected = DetectedAfterMerge(prefs.detected, prefs.saved)]
  /\ UNCHANGED <<managerVars, check, probe, gui>>

\* the merged configuration merged again, as the saved one
MergeAgain ==
  /\ prefs.pc = "merged"
  /\ prefs' = [prefs EXCEPT !.pc = "remerged",
                            !.again = merge_config(prefs.detected, prefs.config)]
  /\ UNCHANGED <<managerVars, check, probe, gui>>

\* cli.py run_start, steps 3 to 7: overrides, merge, confirmation, validation
CliStartConfig ==
  /\ prefs.pc = "loaded" /\ prefs.route = "file"
  /\ \E args \in [ runtime : {"", "podman"}, gpu : {"", "amd"},
                   display : {"", "x11"}, audio : {"", "none"} ],
        confirmed \in BOOLEAN :
       LET saved == ApplyOverrides(prefs.saved, args) IN
       prefs' = [prefs EXCEPT !.pc = "sent", !.route = "cli_start",
                              !.args = args, !.saved = saved,
                              !.config = merge_config(prefs.detected, saved),
                              !.sentTo = IF confirmed THEN "validate_system" ELSE "none"]
  /\ UNCHANGED <<managerVars, check, probe, gui>>

\* cli.py run_stop, run_restart, run_logs, run_status
CliManageConfig ==
  /\ prefs.pc = "loaded" /\ prefs.route = "file"
  /\ prefs' = [prefs EXCEPT !.pc = "sent", !.route = "cli_manage",
                            !.config = merge_config(prefs.detected, prefs.saved),
                            !.sentTo = "ContainerManager"]
  /\ UNCHANGED <<managerVars, check, probe, gui>>

\* gui.py _detect_and_load, then a button handler's _gather_config; the
\* user leaves the dropdowns as loaded or selects entries of their lists
GuiConfig ==
  /\ prefs.pc = "loaded" /\ prefs.route = "file"
  /\ \E selected \in GuiVarsSet, touched \in BOOLEAN,
        sentTo \in {"validate_system", "ContainerManager"} :
       LET loaded == merge_config(prefs.detected, prefs.saved)
           uivars == IF touched THEN selected
                     ELSE _update_ui_from_config(loaded, prefs.detected)
       IN prefs' = [prefs EXCEPT !.pc = "sent", !.route = "gui",
                                 !.args = uivars,
                                 !.config = _gather_config(prefs.detected, uivars),
                                 !.sentTo = sentTo]
  /\ UNCHANGED <<managerVars, check, probe, gui>>

\* cli.py run_stop, run_restart, run_logs, run_status invoked after a start,
\* on the same host and config.yaml, with start's overrides repeated on the
\* command line: args is not read, the file is loaded again
CliManageAfterStart ==
  /\ prefs.pc = "sent" /\ prefs.route = "cli_start"
  /\ prefs.sentTo = "validate_system"
  /\ prefs' = [prefs EXCEPT !.pc = "managed",
                            !.again = merge_config(prefs.detected, load_config(prefs.file))]
  /\ UNCHANGED <<managerVars, check, probe, gui>>

\* gui.py save_configuration with the dropdowns as they are: save_data, and
\* save_config(save_data) writing it to config.yaml (or failing to); `again`
\* is what config.yaml holds afterwards
GuiSaveConfig ==
  /\ prefs.pc = "sent" /\ prefs.route = "gui"
  /\ \E written \in BOOLEAN :
       LET config == _gather_config(prefs.detected, prefs.args)
           save_data == [ runtime |-> IF prefs.args["runtime"] = "auto" THEN "" ELSE config["runtime"],
                          gpu |-> IF prefs.args["gpu"] = "auto" THEN "" ELSE config["gpu"],
                          display |-> IF prefs.args["display"] = "auto" THEN "" ELSE config["display"],
                          audio |-> IF prefs.args["audio"] = "auto" THEN "" ELSE config["audio"],
                          auto_xhost |-> TRUE ]
       IN prefs' = [prefs EXCEPT !.pc = "saved",
                                 !.again = IF written THEN save_data ELSE prefs.file.yaml]
  /\ UNCHANGED <<managerVars, check, probe, gui>>

ConfigNext ==
  \/ LoadConfig \/ PassDict \/ MergeConfig \/ MergeAgain
  \/ CliStartConfig \/ CliManageConfig \/ GuiConfig
  \/ CliManageAfterStart \/ GuiSaveConfig

ConfigSpec == PrefsInit /\ [][ConfigNext]_vars

(***************************************************************************)
(* Properties of the configuration path.                                   *)
(***************************************************************************)
\* a value that is empty or only whitespace
Blank(value) == value \in {"", " "}

\* the effective value of key: the saved one unless absent or blank
Preferred(key, detected, saved) ==
  IF key \in DOMAIN saved /\ ~Blank(saved[key]) THEN saved[key] ELSE detected[key]

\* C17: merge_config(detected, persisted) yields, for each of runtime, gpu,
\* display and audio, the persisted value when that is non-empty and not
\* only whitespace, and the detected value otherwise; its auto_xhost is the
\* persisted flag, or true when persisted has none; and the call leaves
\* both of its arguments as they were.
C17_MergePrefersSaved ==
  [][ (prefs.pc = "loaded" /\ prefs'.pc = "merged") =>
        /\ \A i \in 1..Len(EnumKeys) :
             prefs'.config[EnumKeys[i]] = Preferred(EnumKeys[i], prefs.detected, prefs.saved)
        /\ prefs'.config["auto_xhost"] =
             (IF "auto_xhost" \in DOMAIN prefs.saved THEN prefs.saved["auto_xhost"] ELSE TRUE)
        /\ DOMAIN prefs'.config = {"runtime", "gpu", "display", "audio", "auto_xhost"}
        /\ prefs'.detected = prefs.detected
        /\ prefs'.saved = prefs.saved ]_vars

\* a merge of a saved dict with a whitespace-only value, a value with
\* blanks around it and the flag set to false
C17_Witness ==
  /\ prefs.pc = "merged"
  /\ prefs.route = "file"
  /\ prefs.file.exists
  /\ prefs.saved["gpu"] = " " /\ prefs.config["gpu"] = prefs.detected["gpu"]
  /\ prefs.saved["runtime"] = " docker " /\ prefs.config["runtime"] = " docker "
  /\ ~prefs.config["auto_xhost"]

\* C18: merging the result of a merge again, as the persisted dict, gives
\* the same result: merge_config(d, merge_config(d, p)) = merge_config(d, p);
\* and a non-blank persisted runtime X is the runtime of the result,
\* whatever was detected.
C18_MergeIdempotentAndPrecedence ==
  /\ prefs.pc = "remerged" => prefs.again = prefs.config
  /\ ( /\ prefs.pc \in {"merged", "remerged"}
       /\ "runtime" \in DOMAIN prefs.saved
       /\ ~Blank(prefs.saved["runtime"]) )
       => prefs.config["runtime"] = prefs.saved["runtime"]

\* a dict holding only a runtime with blanks around it, merged twice over a
\* detection that found another runtime
C18_Witness ==
  /\ prefs.pc = "remerged"
  /\ prefs.route = "dict"
  /\ prefs.saved = [runtime |-> " docker "]
  /\ prefs.detected["runtime"] = "podman"
  /\ prefs.again["runtime"] = " docker "

Enums ==
  [ runtime |-> {"podman", "docker"}, gpu |-> {"nvidia", "amd"},
    display |-> {"x11", "wayland"}, audio |-> {"pulseaudio", "none"} ]

\* C19: every configuration that reaches validate_system or a
\* ContainerManager has runtime in {podman, docker}, gpu in {nvidia, amd},
\* display in {x11, wayland} and audio in {pulseaudio, none}, whatever was
\* detected and whatever the saved file holds.
C19_EnumValuesReachCore ==
  prefs.sentTo \in {"validate_system", "ContainerManager"} =>
    \A i \in 1..Len(EnumKeys) : prefs.config[EnumKeys[i]] \in Enums[EnumKeys[i]]

\* C20: in the CLI start command the effective value of each of runtime,
\* gpu, display and audio is the command-line override when one is given,
\* otherwise the persisted value when that is not blank, otherwise the
\* detected value.
C20_ExplicitPersistedDetected ==
  (prefs.route = "cli_start" /\ prefs.pc = "sent") =>
    \A i \in 1..Len(EnumKeys) :
      LET key == EnumKeys[i] IN
      prefs.config[key] =
        IF prefs.args[key] # "" THEN prefs.args[key]
        ELSE Preferred(key, prefs.detected, load_config(prefs.file))

\* one start in which an override beats a persisted value, a persisted
\* value beats the detected one, and a blank persisted value gives way
C20_Witness ==
  /\ prefs.route = "cli_start" /\ prefs.pc = "sent"
  /\ prefs.file.exists /\ DOMAIN prefs.file.yaml = DOMAIN prefs.config
  /\ prefs.args["gpu"] = "amd" /\ prefs.file.yaml["gpu"] = "nvidia"
  /\ prefs.config["gpu"] = "amd"
  /\ prefs.args["display"] = "" /\ prefs.file.yaml["display"] = "wayland"
  /\ prefs.detected["display"] = "x11" /\ prefs.config["display"] = "wayland"
  /\ prefs.args["audio"] = "" /\ prefs.file.yaml["audio"] = ""
  /\ prefs.config["audio"] = prefs.detected["audio"]

(***************************************************************************)
(* The composed commands (core/composer.py), on the commands every         *)
(* operation of the manager launched.                                      *)
(***************************************************************************)
\* the action and the extra arguments the i-th command of the operation was
\* asked for
AskedFor(i) ==
  IF op.name = "start"
    THEN <<"up">> \o (IF op.detached THEN <<"-d">> ELSE <<>>)
                  \o (IF op.force THEN <<"--force-recreate">> ELSE <<>>)
  ELSE IF op.name \in {"status", "is_running"}
    THEN <<"ps", "--format", "json">>
  ELSE IF i = 1 THEN <<"stop", "-t", ToString(op.grace)>>
  ELSE IF i = 2 THEN <<"down">>
  ELSE <<"up">>

\* C21: get_compose_files returns exactly 5 identifiers in the order base,
\* runtime, gpu, display, audio, and every command build_compose_command
\* returned is [runtime, 'compose'], then exactly five '-f <file>' pairs
\* referencing those five files in that order, then the action token right
\* after the 5th pair, then the extra arguments in their given order.
C21_ComposedCommand ==
  \A i \in 1..Len(issued) :
    LET cmd == issued[i].cmd
        config == mgr.config
        files == get_compose_files(config)
    IN /\ Len(files) = 5
       /\ files[1] = "compose.base.yaml"
       /\ files[2] = "compose." \o config["runtime"] \o ".yaml"
       /\ files[3] = "compose." \o config["gpu"] \o ".yaml"
       /\ files[4] = "compose." \o config["display"] \o ".yaml"
       /\ files[5] = "compose.audio-" \o config["audio"] \o ".yaml"
       /\ cmd[1] = config["runtime"]
       /\ cmd[2] = "compose"
       /\ \A k \in 1..5 :
            /\ cmd[2 * k + 1] = "-f"
            /\ cmd[2 * k + 2] = get_compose_directory \o "/" \o files[k]
       /\ SubSeq(cmd, 13, Len(cmd)) = AskedFor(i)

\* a detached, force-recreating start and a whole restart launched their
\* commands
C21_Witness ==
  \/ /\ op.name = "start" /\ op.detached /\ op.force /\ Len(issued) = 1
  \/ /\ op.name = "restart" /\ Len(issued) = 3

(***************************************************************************)
(* The compose files of a configuration and the compose directory          *)
(* (composer.py validate_compose_files_exist, validator.py                 *)
(* _check_compose_files), on the runs of validate_system.                  *)
(***************************************************************************)
\* the issues of the compose-file check among the returned issues, in order
ComposeFileIssues == SelectSeq(check.result.issues, LAMBDA issue : CheckOf(issue) = 5)

\* C22: validate_compose_files_exist returns (true, []) when all 5 files
\* expected for the configuration are present in the compose directory;
\* removing any one of them makes it return all_exist = false with exactly
\* that file's identifier in the missing list; the missing list keeps the
\* fixed file order, and the validator reports one blocking issue per
\* missing file.
C22_MissingFilesReported ==
  CheckDone =>
    LET config == check.config
        files == get_compose_files(config)
        present == check.host.files
        absent == {k \in 1..Len(files) : files[k] \notin present}
        r == validate_compose_files_exist(config, present)
    IN /\ Len(files) = 5
       /\ absent = {} => r.all_exist /\ r.missing = <<>>
       /\ \A k \in 1..Len(files) : absent = {k} => ~r.all_exist /\ r.missing = <<files[k]>>
       /\ r.all_exist <=> absent = {}
       /\ Len(r.missing) = Cardinality(absent)
       /\ \A i \in 1..Len(r.missing) :
            \E k \in absent :
              /\ r.missing[i] = files[k]
              /\ Cardinality({j \in absent : j < k}) = i - 1
       /\ Len(ComposeFileIssues) = Len(r.missing)
       /\ \A i \in 1..Len(r.missing) :
            /\ ComposeFileIssues[i].level = "error"
            /\ ComposeFileIssues[i].message =
                 "Compose file not found: " \o get_compose_directory \o "/" \o r.missing[i]
       /\ absent # {} => ~check.result.is_valid

\* validation returned with two of the five files removed from the compose
\* directory
C22_Witness ==
  /\ CheckDone
  /\ Cardinality(NeededFiles(check.config) \ check.host.files) = 2
  /\ Len(ComposeFileIssues) = 2

(***************************************************************************)
(* The process handle and the stop-requested flag of a ContainerManager    *)
(* over a sequence of calls on one instance.                               *)
(***************************************************************************)
\* C23: the supervised-process handle held by a ContainerManager is none
\* before any start and after a detached start, and it is none again once
\* stop or restart has completed, after any sequence of start, stop and
\* restart calls on that instance.
C23_HandleNoneAfterStop ==
  /\ calls = 0 => ~mgr.process
  /\ op.pc = "done" /\ op.name = "start" /\ op.detached /\ calls = 1 => ~mgr.process
  /\ op.pc = "done" /\ op.name \in {"stop", "restart"} => ~mgr.process

\* a foreground start of this operation, with no stop() from another thread
\* during it, has returned
ForegroundStartReturned ==
  /\ op.pc = "done"
  /\ op.name \in {"start", "restart"}
  /\ op.ret \in {"True", "False"}
  /\ aux.pc = "idle"
  /\ Len(issued) > 0
  /\ issued[Len(issued)].kind = "spawned"

\* C24: the stop-requested flag raised by stop() does not outlive that stop:
\* a foreground start issued on the same ContainerManager after stop() has
\* returned (as restart does) delivers every output line of the newly
\* started process to onOutputLine, not only the first one.
C24_StopFlagEndsWithStop ==
  ForegroundStartReturned /\ op.hasOut =>
    /\ proc.nr = Len(proc.lines)
    /\ Len(out) >= Len(proc.lines)
    /\ \A i \in 1..Len(proc.lines) :
         out[Len(out) - Len(proc.lines) + i] = RStrip(proc.lines[i])

(***************************************************************************)
(* Progress of a foreground start.  The calling thread is scheduled, so    *)
(* each step of start that can be taken is taken; the supervised process   *)
(* runs, so it writes its next line whenever the pipe has room and exits   *)
(* once it has written them all.  Nothing obliges anyone to call the       *)
(* manager, and nothing obliges another thread to call stop().             *)
(***************************************************************************)
FairSpec ==
  /\ Spec
  /\ WF_vars(StartReadLine) /\ WF_vars(StartReadEof) /\ WF_vars(StartWait)
  /\ WF_vars(ProcWrite) /\ WF_vars(ProcExit)

\* C25: a foreground start always eventually returns once the workload has
\* produced finitely many output lines and tries to exit: the supervisor
\* never waits for the process to exit while the process's output pipe is
\* left unread (start without an output callback, start whose loop was ended
\* by the stop-requested flag, the start issued by restart).
C25_ForegroundStartReturns ==
  (op.pc \in {"read", "wait"}) ~> (op.pc = "done")

(***************************************************************************)
(* The configuration of the CLI commands that manage a workload the CLI    *)
(* start command launched.                                                 *)
(***************************************************************************)
\* C26: the CLI stop, restart, status and logs commands act on the same
\* effective configuration (same runtime executable and same five compose
\* files) as the CLI start command that launched the workload under the same
\* host environment and persisted preferences, including when start was
\* given command-line overrides that are repeated on the later command.
C26_ManageSameConfigAsStart ==
  prefs.pc = "managed" =>
    /\ prefs.again["runtime"] = prefs.config["runtime"]
    /\ get_compose_files(prefs.again) = get_compose_files(prefs.config)

(***************************************************************************)
(* Detection against validation, on one host.                              *)
(***************************************************************************)
\* C27: detection and validation agree on the GPU: for every host
\* environment, the vendor returned by detect_gpu passes _check_gpu without
\* a blocking issue.
C27_DetectedGpuPassesCheck ==
  probe.pc = "gpu_checked" => probe.ret = "passed"

(***************************************************************************)
(* The GUI window (gui.py): the Start and Stop buttons, the start worker   *)
(* of start_container_async, the stop worker of stop_minecraft, and the    *)
(* callbacks the workers hand to the main loop with window.after(0, ..).   *)
(* Button handlers and callbacks run on the main loop, one at a time; the  *)
(* workers run on their own threads.                                       *)
(***************************************************************************)
MaxStartWorkers == 2
MaxStopWorkers == 1
\* callbacks and stop workers still outstanding beyond which the user does
\* not click Stop again
MaxPending == 2

\* the window after _create_widgets and the existing-instance check: Stop is
\* disabled unless a container was found running, and then Start is disabled
GuiInit ==
  /\ InitManager
  /\ check = NoRun
  /\ probe = NoRun
  /\ prefs = NoRun
  /\ \E found \in BOOLEAN :
       gui = [ btn_start |-> IF found THEN "disabled" ELSE "normal",
               btn_stop |-> IF found THEN "normal" ELSE "disabled",
               user_requested_stop |-> FALSE,
               container |-> IF found THEN "up" ELSE "absent",
               starters |-> <<>>, stoppers |-> 0, queue |-> <<>> ]

\* start_minecraft: the 'ps' pre-check (a failed check lets the start go on),
\* validation, then the Start button is disabled and the worker thread of
\* start_container_async is started
GuiClickStart ==
  /\ gui.btn_start = "normal"
  /\ Len(gui.starters) < MaxStartWorkers
  /\ \E seen \in BOOLEAN, valid \in BOOLEAN :
       /\ seen => gui.container = "up"
       /\ gui' = IF seen \/ ~valid THEN gui
                 ELSE [gui EXCEPT !.btn_start = "disabled",
                                  !.starters = Append(@, [pc |-> "launch", signaled |-> FALSE])]
  /\ UNCHANGED <<managerVars, check, probe, prefs>>

\* _worker: manager.start(..) launches 'up' (or fails to)
StartWorkerLaunch ==
  /\ \E i \in 1..Len(gui.starters), launched \in BOOLEAN :
       /\ gui.starters[i].pc = "launch"
       /\ gui' = IF launched
                   THEN [gui EXCEPT !.starters[i].pc = "streaming", !.container = "up"]
                   ELSE [gui EXCEPT !.starters[i].pc = "returned"]
  /\ UNCHANGED <<managerVars, check, probe, prefs>>

\* started_callback, from the worker's streaming loop: window.after(0, _on_started)
StartWorkerReady ==
  /\ \E i \in 1..Len(gui.starters) :
       /\ gui.starters[i].pc = "streaming" /\ ~gui.starters[i].signaled
       /\ gui' = [gui EXCEPT !.starters[i].signaled = TRUE,
                             !.queue = Append(@, "_on_started")]
  /\ UNCHANGED <<managerVars, check, probe, prefs>>

\* _worker: manager.start(..) returns (the 'up' process has exited, the
\* container is gone); completion_callback(success): window.after(0,
\* _on_exited); the thread ends
StartWorkerCompletes ==
  /\ \E i \in 1..Len(gui.starters) :
       /\ gui.starters[i].pc \in {"streaming", "returned"}
       /\ gui' = [gui EXCEPT
                    !.starters[i].pc = "ended",
                    !.container = IF gui.starters[i].pc = "streaming" THEN "absent" ELSE @,
                    !.queue = Append(@, "_on_exited")]
  /\ UNCHANGED <<managerVars, check, probe, prefs>>

\* the main loop runs _on_started
OnStarted ==
  /\ gui.queue # <<>> /\ Head(gui.queue) = "_on_started"
  /\ gui' = [gui EXCEPT !.btn_stop = "normal", !.queue = Tail(@)]
  /\ UNCHANGED <<managerVars, check, probe, prefs>>

\* the main loop runs _on_exited
OnExited ==
  /\ gui.queue # <<>> /\ Head(gui.queue) = "_on_exited"
  /\ gui' = [gui EXCEPT !.btn_start = "normal", !.btn_stop = "disabled",
                        !.user_requested_stop = FALSE, !.queue = Tail(@)]
  /\ UNCHANGED <<managerVars, check, probe, prefs>>

\* stop_minecraft: the stop worker thread is started
GuiClickStop ==
  /\ gui.btn_stop = "normal"
  /\ gui.stoppers < MaxStopWorkers
  /\ Len(gui.queue) + gui.stoppers < MaxPending
  /\ gui' = [gui EXCEPT !.user_requested_stop = TRUE, !.stoppers = @ + 1]
  /\ UNCHANGED <<managerVars, check, probe, prefs>>

\* stop_worker: ContainerManager(config).stop(), then window.after(0,
\* _on_stop_done); the thread ends
StopWorker ==
  /\ gui.stoppers > 0
  /\ \E success \in BOOLEAN :
       gui' = [gui EXCEPT
                 !.stoppers = @ - 1,
                 !.container = IF success THEN "absent" ELSE @,
                 !.queue = Append(@, IF success THEN "_on_stop_done(True)"
                                     ELSE "_on_stop_done(False)")]
  /\ UNCHANGED <<managerVars, check, probe, prefs>>

\* the main loop runs _on_stop_done
OnStopDone ==
  /\ gui.queue # <<>>
  /\ Head(gui.queue) \in {"_on_stop_done(True)", "_on_stop_done(False)"}
  /\ gui' = IF Head(gui.queue) = "_on_stop_done(True)"
              THEN [gui EXCEPT !.btn_start = "normal", !.btn_stop = "disabled",
                               !.queue = Tail(@)]
              ELSE [gui EXCEPT !.queue = Tail(@)]
  /\ UNCHANGED <<managerVars, check, probe, prefs>>

GuiNext ==
  \/ GuiClickStart \/ StartWorkerLaunch \/ StartWorkerReady \/ StartWorkerCompletes
  \/ OnStarted \/ OnExited
  \/ GuiClickStop \/ StopWorker \/ OnStopDone

GuiSpec == GuiInit /\ [][GuiNext]_vars

\* the start workers that have not completed
ActiveStartWorkers == {i \in 1..Len(gui.starters) : gui.starters[i].pc # "ended"}

\* C28: under every interleaving of the start worker thread, the stop worker
\* thread and their completion callbacks on the main loop, the Start button
\* is disabled whenever a foreground start worker launched by start_minecraft
\* has not yet completed, so at most one start worker is active at a time.
C28_StartDisabledWhileWorkerActive ==
  /\ ActiveStartWorkers # {} => gui.btn_start = "disabled"
  /\ Cardinality(ActiveStartWorkers) <= 1

(***************************************************************************)
(* The persisted access-grant preference on the start paths and through    *)
(* the GUI's Save Config.                                                  *)
(***************************************************************************)
\* config.yaml holds auto_xhost: false
PersistedNoXhost ==
  /\ prefs.file.exists
  /\ Get(prefs.file.yaml, "auto_xhost", TRUE) = FALSE

\* C29: a persisted access-grant preference auto_xhost = false is honoured on
\* every start path: neither the CLI start nor the GUI start executes the
\* xhost grant command or reports access-grant advisories (both happen exactly
\* for display = x11 with a true flag in the effective configuration), and
\* saving the configuration from the GUI leaves the persisted flag unchanged.
C29_PersistedNoXhostHonoured ==
  /\ ( /\ prefs.pc = "sent"
       /\ prefs.route \in {"cli_start", "gui"}
       /\ prefs.sentTo = "validate_system"
       /\ PersistedNoXhost )
       => ~WantsXhost(prefs.config)
  /\ (prefs.pc = "saved" /\ PersistedNoXhost)
       => Get(prefs.again, "auto_xhost", TRUE) = FALSE

(***************************************************************************)
(* The place of the xhost access grant in the start paths of both          *)
(* front-ends.                                                             *)
(***************************************************************************)
\* C30: in both front-ends the xhost access grant is executed only when
\* display = x11 and the access-grant flag is true, only after
\* validate_system has returned valid, and before the compose 'up' command is
\* launched (whenever 'up' was launched on a start path for such a
\* configuration, the grant has been run); a failed or impossible grant is
\* reported but never prevents the 'up' command from being launched.
C30_GrantBetweenValidationAndUp ==
  /\ xhost # "not_run" =>
       /\ caller \in {"cli_start", "gui_start"}
       /\ validated.ran /\ validated.valid
       /\ validated.config["display"] = "x11"
       /\ Get(validated.config, "auto_xhost", TRUE)
       /\ mgr.config = validated.config
  /\ ( /\ caller \in {"cli_start", "gui_start"}
       /\ UpIssued
       /\ mgr.config["display"] = "x11"
       /\ Get(mgr.config, "auto_xhost", TRUE) )
       => xhost # "not_run"
  /\ xhost = "failed" =>
       /\ op.name = "start"
       /\ op.pc # "launch" => UpIssued

\* on the GUI's start path the grant failed, 'up' was launched all the same
\* and start has returned
C30_Witness ==
  /\ xhost = "failed"
  /\ caller = "gui_start"
  /\ UpIssued
  /\ op.pc = "done"

====
